---- MODULE Spec2Model ----
(***************************************************************************)
(* State-machine model of the multiplayer synchronisation core of the      *)
(* sword game: the server-side player registry and ghost sweep             *)
(* (src/server.js) and the client-side remote-player shadows and ghost     *)
(* sweep of MultiplayerManager (src/multiplayer.js).                       *)
(*                                                                         *)
(* Time is in milliseconds, as Date.now() in the source.  A connection id  *)
(* (socket.id) is a natural number handed out once by the transport.      *)
(***************************************************************************)
EXTENDS Integers, Sequences, FiniteSets, TLC

VARIABLES
    now,                    \* Date.now(), shared wall clock
    nextId,                 \* next socket.id the transport hands out
    open,                   \* io.sockets.sockets: ids of the open sockets
    players,                \* server.js: const players = {}
    potentialGhostPlayers,  \* server.js: const potentialGhostPlayers = {}
    activeSessions,         \* server.js: const activeSessions = new Set()
    up,                     \* the server process is running
    sweepDue,               \* due time of the server's 15 s setInterval
    localId,                \* client: this.socket.id of the observed manager (0: none)
    connected,              \* client: this.connected
    remotePlayers,          \* client: this.remotePlayers
    activePlayerIds,        \* client: this._activePlayerIds
    cleanupDue,             \* client: due time of the 5 s cleanup interval (0: not set up)
    inbox,                  \* server-to-client events not yet handled by the manager
    joinLog,                \* history: the name and sessionId of each connection's last join
    manager,                \* client: the manager's timers, network statistics and session
    newest,                 \* history: the greatest timestamp handled for each shadow
    ev                      \* history: what the last handler did

vars == << now, nextId, open, players, potentialGhostPlayers, activeSessions, up,
           sweepDue, localId, connected, remotePlayers, activePlayerIds, cleanupDue,
           inbox, manager, joinLog, newest, ev >>

serverVars == << nextId, open, players, potentialGhostPlayers, activeSessions, up,
                joinLog >>
clientVars == << localId, connected, remotePlayers, activePlayerIds, cleanupDue, inbox,
                manager, newest >>

-----------------------------------------------------------------------------
(* Bounds of the model *)

MaxConn == 2            \* connections the transport ever opens (registry)
MaxTime == 25000        \* horizon of the registry and update specifications
MaxSweepConn == 2       \* connections the transport ever opens (sweeps)
MaxSweepTime == 150000  \* horizon of the sweep specification

(* Program constants *)

SweepPeriod == 15000         \* server.js: setInterval(..., 15000); the clock's grain
cleanupPeriod == 5000        \* multiplayer.js: setInterval(..., 5000)
inactiveTimeout == 30000     \* server.js cleanupGhostPlayers
ghostConfirmDelay == 60000   \* server.js: now - firstDetectedAt > 60000
hardCeiling == 120000        \* server.js: inactiveDuration > 120000
recentUpdateWindow == 10000  \* multiplayer.js: now - _lastUpdateTime < 10000
inactivityTimeout == 60000   \* multiplayer.js cleanupGhostPlayers
longInactivityTimeout == 120000

-----------------------------------------------------------------------------
(* JavaScript values.  A value is a pair <<type tag, integer>>, so that    *)
(* typeof, isNaN and isFinite are computed as the engine computes them.    *)

JNum(n) == << "number", n >>
JNaN == << "NaN", 0 >>
JInfinity == << "Infinity", 0 >>
JString == << "string", 0 >>
JUndefined == << "undefined", 0 >>

\* typeof v === 'number' (NaN and Infinity are numbers)
TypeofNumber(v) == v[1] \in {"number", "NaN", "Infinity"}

\* typeof v === 'number' && !isNaN(v) && isFinite(v)
IsValidCoord(v) == TypeofNumber(v) /\ v[1] # "NaN" /\ v[1] # "Infinity"

Pos(x, y, z) == [k |-> "object", x |-> x, y |-> y, z |-> z]
NoPos == [k |-> "undefined", x |-> JUndefined, y |-> JUndefined, z |-> JUndefined]
Origin == Pos(JNum(0), JNum(0), JNum(0))

-----------------------------------------------------------------------------
(* Names are sequences of characters, so that trim() is computed.          *)

RECURSIVE TrimStart(_)
TrimStart(s) ==
    IF s = << >> THEN s
    ELSE IF Head(s) = " " THEN TrimStart(Tail(s)) ELSE s

RECURSIVE TrimEnd(_)
TrimEnd(s) ==
    IF s = << >> THEN s
    ELSE IF s[Len(s)] = " " THEN TrimEnd(SubSeq(s, 1, Len(s) - 1)) ELSE s

Trim(s) == TrimEnd(TrimStart(s))

\* `Player_${socket.id.substring(0, 5)}`; the model's ids are one character long
DefaultName(c) == << "Player_", ToString(c) >>

\* server.js 318-325
SanitizeName(name, c) ==
    IF name = << >> \/ Trim(name) = << >> THEN DefaultName(c) ELSE Trim(name)

\* playerData.sessionId || null
SessionOf(s) == IF s = "" THEN "null" ELSE s

-----------------------------------------------------------------------------
(* Finite maps (JavaScript objects used as dictionaries) *)

Put(f, k, v) == [x \in DOMAIN f \cup {k} |-> IF x = k THEN v ELSE f[x]]
Drop(f, ks) == [x \in DOMAIN f \ ks |-> f[x]]
EmptyMap == [x \in {} |-> 0]

Min(S) == CHOOSE x \in S : \A y \in S : x <= y

\* the keys of an object in insertion order: ids are handed out in increasing order
RECURSIVE KeysInOrder(_)
KeysInOrder(S) ==
    IF S = {} THEN << >> ELSE << Min(S) >> \o KeysInOrder(S \ {Min(S)})

RECURSIVE Concat(_)
Concat(ss) == IF ss = << >> THEN << >> ELSE Head(ss) \o Concat(Tail(ss))

-----------------------------------------------------------------------------
(* Events on the wire.  `to` is the set of sockets an emit reaches:        *)
(* io.emit reaches every open socket, socket.broadcast.emit every open     *)
(* socket but the sender, socket.emit the sender alone.                    *)

Msg(type, to, id, ids, data) ==
    [type |-> type, to |-> to, id |-> id, ids |-> ids, data |-> data, timestamp |-> 0]

\* server.js 562: timestamp: Date.now(); 0 stands for an event without the field
Stamped(m, t) == [m EXCEPT !.timestamp = t]


\* the fields of a record that playerJoined, playerUpdated and existingPlayers carry
\* and the manager reads
Wire(p) == [name |-> p.name, characterType |-> p.characterType, position |-> p.position]

\* an event about one record
About(type, to, id, p) == Msg(type, to, id, {}, [x \in {id} |-> Wire(p)])

\* an event that carries no record
Plain(type, to, id) == Msg(type, to, id, {}, EmptyMap)

\* what the last handler did (history only; no handler reads it)
NoPayload ==
    [isObject |-> TRUE, name |-> << >>, sessionId |-> "", position |-> NoPos,
     characterType |-> "", swordType |-> "", rotation |-> JUndefined,
     isAttacking |-> "undefined", isBlocking |-> "undefined",
     id |-> 0, targetId |-> 0, damage |-> JUndefined]

\* the event was sent without a payload: the handler's argument is undefined
Missing == [NoPayload EXCEPT !.isObject = FALSE]

Event(kind, conn, payload, before, emits, removed, invalid) ==
    [kind |-> kind, conn |-> conn, payload |-> payload, before |-> before,
     keys |-> DOMAIN players, ghosts |-> potentialGhostPlayers,
     emits |-> emits, removed |-> removed, invalid |-> invalid, raised |-> FALSE,
     registry |-> players,
     was |-> IF kind \in {"playerLeftCleanup", "clientCleanupGhostPlayers", "update"}
             THEN [id \in removed |-> remotePlayers[id]]
             ELSE [id \in removed |-> players[id]]]

\* a handler raises: nothing in server.js catches the exception and none is
\* caught for it (no process.on('uncaughtException')), so the process ends
\* and with it the registry and every socket
Crash(kind, c, d) ==
    /\ up' = FALSE
    /\ open' = {}
    /\ players' = EmptyMap
    /\ potentialGhostPlayers' = EmptyMap
    /\ activeSessions' = {}
    /\ ev' = [Event(kind, c, d, IF c \in DOMAIN players THEN << players[c] >> ELSE << >>,
                    << >>, {}, FALSE) EXCEPT !.raised = TRUE]
    /\ UNCHANGED << nextId, joinLog >>

-----------------------------------------------------------------------------
(* Server: connection (server.js 233-261) *)

\* the record created on connection
InitialPlayer(c, t) ==
    [id |-> c, name |-> DefaultName(c), joinedAt |-> t, fullyRegistered |-> FALSE,
     characterType |-> "knight", swordType |-> "undefined", position |-> Origin,
     rotation |-> JNum(0), health |-> JNum(100), lastActivity |-> t,
     sessionId |-> "undefined", isAttacking |-> "undefined",
     isBlocking |-> "undefined"]

\* {...undefined}: every field missing
UndefinedPlayer ==
    [id |-> 0, name |-> << >>, joinedAt |-> 0, fullyRegistered |-> FALSE,
     characterType |-> "undefined", swordType |-> "undefined", position |-> NoPos,
     rotation |-> JUndefined, health |-> JUndefined, lastActivity |-> 0,
     sessionId |-> "undefined", isAttacking |-> "undefined",
     isBlocking |-> "undefined"]

\* sendExistingPlayersToClient (server.js 883-906): the fully registered records
sendExistingPlayersToClient(c, ps) ==
    Msg("existingPlayers", {c}, c, {},
        [id \in {i \in DOMAIN ps : ps[i].fullyRegistered} |-> Wire(ps[id])])

\* io.on('connection'): connect_ack with Object.keys(players), then the
\* provisional record
Connection(c) ==
    /\ c = nextId
    /\ nextId' = c + 1
    /\ open' = open \cup {c}
    /\ players' = Put(players, c, InitialPlayer(c, now))
    /\ UNCHANGED << potentialGhostPlayers, activeSessions, joinLog, up >>
    /\ ev' = Event("connection", c, NoPayload, << >>,
                   << Msg("connect_ack", {c}, c, DOMAIN players, EmptyMap) >>, {}, FALSE)

-----------------------------------------------------------------------------
(* Server: playerJoin (server.js 301-419) *)

\* server.js 349-358: each coordinate is kept when typeof says number, else 0
JoinCoord(v) == IF TypeofNumber(v) THEN v ELSE JNum(0)

\* a join whose position is taken as an offset from the position on record
JoinPositionOffset(old, position) ==
    IF position.k = "object"
    THEN Pos(IF TypeofNumber(position.x) /\ position.x[1] = "number" /\ old.x[1] = "number"
             THEN JNum(old.x[2] + position.x[2]) ELSE JoinCoord(position.x),
             JoinCoord(position.y), JoinCoord(position.z))
    ELSE old

JoinPosition(old, position) ==
    IF position.k = "object"
    THEN Pos(JoinCoord(position.x), JoinCoord(position.y), JoinCoord(position.z))
    ELSE old

\* server.js 335-358: the record after the join
JoinRecord(old, c, d, t) ==
    [old EXCEPT
        !.id = c,
        !.name = SanitizeName(d.name, c),
        !.characterType = IF d.characterType = "" THEN "knight" ELSE d.characterType,
        !.swordType = IF d.swordType = "" THEN "broadsword" ELSE d.swordType,
        !.fullyRegistered = TRUE,
        !.lastActivity = t,
        !.sessionId = SessionOf(d.sessionId),
        !.position = JoinPosition(old.position, d.position)]

\* server.js 387-397: every other record with the joiner's name
DuplicateNames(ps, c, name) == {id \in DOMAIN ps : id # c /\ ps[id].name = name}

playerJoin(c, d) ==
    /\ c \in open
    /\ IF ~d.isObject
       \* server.js 304: playerData.name of an undefined payload raises TypeError
       THEN Crash("playerJoin", c, d)
       ELSE
       LET playerName == SanitizeName(d.name, c)
           had == c \in DOMAIN players
           old == IF had THEN players[c] ELSE UndefinedPlayer
           isNameChange == had /\ players[c].name # playerName
           rec == JoinRecord(old, c, d, now)
           ps == Put(players, c, rec)
           dups == DuplicateNames(ps, c, playerName)
           own == Drop(potentialGhostPlayers, {c})
           others == open \ {c}
       IN /\ players' = ps
          /\ activeSessions' =
                 IF d.sessionId # "" THEN activeSessions \cup {d.sessionId}
                 ELSE activeSessions
          /\ potentialGhostPlayers' =
                 [id \in DOMAIN own \cup dups |->
                     IF id \in dups
                     THEN [firstDetectedAt |-> now, reason |-> "duplicate_name"]
                     ELSE own[id]]
          /\ ev' = Event("playerJoin", c, d, IF had THEN << players[c] >> ELSE << >>,
                         << About("playerJoined", others, c, rec) >>
                         \o (IF isNameChange
                             THEN << About("playerUpdated", others, c, rec) >>
                             ELSE << >>)
                         \o << sendExistingPlayersToClient(c, ps),
                                Plain("debugMessage", {c}, c) >>,
                         {}, FALSE)
          /\ joinLog' = Put(joinLog, c, [name |-> playerName, sessionId |-> d.sessionId])
          /\ UNCHANGED << nextId, open, up >>

-----------------------------------------------------------------------------
(* Server: ping (server.js 428-451) *)

ping(c) ==
    /\ c \in open
    /\ players' = IF c \in DOMAIN players
                  THEN [players EXCEPT ![c].lastActivity = now]
                  ELSE players
    /\ ev' = Event("ping", c, NoPayload,
                   IF c \in DOMAIN players THEN << players[c] >> ELSE << >>,
                   << >>, {}, FALSE)
    /\ UNCHANGED << nextId, open, potentialGhostPlayers, activeSessions, joinLog, up >>

-----------------------------------------------------------------------------
(* Server: playerUpdate (server.js 454-564) *)

\* server.js 465-470: data.position is an object whose coordinates are all valid
IsValidPosition(position) ==
    /\ position.k = "object"
    /\ IsValidCoord(position.x) /\ IsValidCoord(position.y) /\ IsValidCoord(position.z)

\* server.js 462-544: the sender's record after the update
UpdateRecord(old, d, t) ==
    [old EXCEPT
        !.lastActivity = t,
        !.position = IF IsValidPosition(d.position) THEN d.position ELSE old.position,
        !.rotation = IF IsValidCoord(d.rotation) THEN d.rotation ELSE old.rotation,
        !.isAttacking = IF d.isAttacking \in {"true", "false"}
                        THEN d.isAttacking ELSE old.isAttacking,
        !.isBlocking = IF d.isBlocking \in {"true", "false"}
                       THEN d.isBlocking ELSE old.isBlocking,
        !.swordType = IF d.swordType # "" THEN d.swordType ELSE old.swordType,
        !.name = IF d.name # << >> /\ Trim(d.name) # << >> THEN d.name ELSE old.name,
        !.characterType = IF d.characterType # ""
                          THEN d.characterType ELSE old.characterType]

playerUpdate(c, d) ==
    /\ c \in open
    /\ IF c \in DOMAIN players /\ ~d.isObject
       \* server.js 465: data.position of an undefined payload raises TypeError
       THEN Crash("playerUpdate", c, d)
       ELSE
       /\ IF c \in DOMAIN players
          THEN LET rec == UpdateRecord(players[c], d, now)
               IN /\ players' = [players EXCEPT ![c] = rec]
                  /\ ev' = Event("playerUpdate", c, d, << players[c] >>,
                                 << Stamped(About("playerUpdated", open \ {c}, c, rec),
                                            now) >>, {},
                                 d.position.k # "undefined" /\ ~IsValidPosition(d.position))
          ELSE /\ players' = players
               /\ ev' = Event("playerUpdate", c, d, << >>, << >>, {}, FALSE)
       /\ UNCHANGED << nextId, open, potentialGhostPlayers, activeSessions, joinLog, up >>

-----------------------------------------------------------------------------
(* Server: disconnect (server.js 676-738).  The transport has already      *)
(* taken the socket out of io.sockets when the handler runs.               *)

\* the disconnect handler without its delete of the potential-ghost entry
DisconnectGhostsKept(ghosts, c) == ghosts

\* server.js 709-713
DisconnectGhosts(ghosts, c) == Drop(ghosts, {c})

disconnect(c) ==
    /\ c \in open
    /\ open' = open \ {c}
    /\ IF c \in DOMAIN players
       THEN /\ players' = Drop(players, {c})
            /\ potentialGhostPlayers' = DisconnectGhosts(potentialGhostPlayers, c)
            /\ ev' = Event("disconnect", c, NoPayload, << players[c] >>,
                           << Plain("playerLeft", open \ {c}, c) >>, {c}, FALSE)
       ELSE /\ UNCHANGED << players, potentialGhostPlayers >>
            /\ ev' = Event("disconnect", c, NoPayload, << >>, << >>, {}, FALSE)
    /\ UNCHANGED << nextId, activeSessions, joinLog, up >>

-----------------------------------------------------------------------------
(* Server: removeGhostPlayer (server.js 741-783); ghostId 0 is a missing id *)

removeGhostPlayer(c, ghostId) ==
    /\ c \in open
    /\ IF ghostId # 0 /\ ghostId \in DOMAIN players
       THEN /\ players' = Drop(players, {ghostId})
            /\ ev' = Event("removeGhostPlayer", c, NoPayload, << players[ghostId] >>,
                           << Plain("playerLeft", open, ghostId),
                              Plain("ghostPlayerRemoved", {c}, ghostId) >>,
                           {ghostId}, FALSE)
       ELSE /\ players' = players
            /\ ev' = Event("removeGhostPlayer", c, NoPayload, << >>, << >>, {}, FALSE)
    /\ UNCHANGED << nextId, open, potentialGhostPlayers, activeSessions, joinLog, up >>

-----------------------------------------------------------------------------
(* Server: playerAttack (server.js 567-603)                                 *)

\* a value in a position where JavaScript tests it for truth (a || b);
\* JString stands for a non-empty string
Truthy(v) ==
    \/ v[1] = "number" /\ v[2] # 0
    \/ v[1] \in {"Infinity", "string"}

\* an optional string field holds a value ("" is absent in a payload,
\* "undefined" is absent in a record)
HasString(f) == f \notin {"", "undefined"}

\* server.js 606-616
calculateDamageFromSwordType(swordType) ==
    CASE swordType = "broadsword" -> 15
      [] swordType = "katana" -> 12
      [] swordType = "ninjato" -> 10
      [] swordType = "greatsword" -> 20
      [] swordType = "rapier" -> 12
      [] swordType = "dualdaggers" -> 8
      [] OTHER -> 10

\* the payload's id field put in place of the socket's id
AttackerIdFromPayload(c, d) == IF d.isObject /\ d.id # 0 THEN d.id ELSE c

\* server.js 575: id: socket.id
AttackerId(c, d) == c

\* server.js 571: players[socket.id] || {}
CurrentPlayerData(ps, c) == IF c \in DOMAIN ps THEN ps[c] ELSE UndefinedPlayer

\* server.js 574-582: attackData, built with data?.field || fallback; a
\* missing payload reads as a payload without fields
AttackData(c, d, cur) ==
    LET sword == IF HasString(d.swordType) THEN d.swordType ELSE cur.swordType
    IN [id |-> AttackerId(c, d),
        position |-> IF d.position.k = "object" THEN d.position
                     ELSE IF cur.position.k = "object" THEN cur.position
                     ELSE Origin,
        swordType |-> IF HasString(sword) THEN sword ELSE "broadsword",
        damage |-> IF Truthy(d.damage) THEN d.damage
                   ELSE JNum(calculateDamageFromSwordType(sword))]

\* server.js 600: socket.broadcast.emit('playerAttacked', attackData)
AttackEmits(c, d, cur, sockets) ==
    LET attackData == AttackData(c, d, cur)
    IN << Msg("playerAttacked", sockets \ {c}, attackData.id, {},
              [x \in {attackData.id} |-> attackData]) >>

playerAttack(c, d) ==
    /\ c \in open
    /\ LET cur == CurrentPlayerData(players, c)
           attackData == AttackData(c, d, cur)
       IN /\ players' =
                 IF c \in DOMAIN players /\ attackData.swordType # players[c].swordType
                 THEN [players EXCEPT ![c].swordType = attackData.swordType]
                 ELSE players
          /\ ev' = Event("playerAttack", c, d,
                         IF c \in DOMAIN players THEN << players[c] >> ELSE << >>,
                         AttackEmits(c, d, cur, open), {}, FALSE)
    /\ UNCHANGED << nextId, open, potentialGhostPlayers, activeSessions, joinLog, up >>

-----------------------------------------------------------------------------
(* Server: playerDamaged (server.js 619-640)                                *)

NegInfinity == << "Infinity", -1 >>

\* a - b as JavaScript computes it on numbers, NaN, the infinities and the
\* values that convert to NaN (undefined, a non-numeric string)
Minus(a, b) ==
    IF a[1] = "number" /\ b[1] = "number" THEN JNum(a[2] - b[2])
    ELSE IF a[1] \in {"number", "Infinity"} /\ b[1] \in {"number", "Infinity"}
    THEN IF b[1] = "number" THEN a
         ELSE IF a[1] = "number" THEN (IF b = JInfinity THEN NegInfinity ELSE JInfinity)
         ELSE IF a = b THEN JNaN ELSE a
    ELSE JNaN

\* v <= 0 as JavaScript computes it: false for NaN
LessEqZero(v) ==
    \/ v[1] = "number" /\ v[2] <= 0
    \/ v = NegInfinity

\* server.js 623: players[targetId].health -= damage
DamagedHealth(health, damage) == Minus(health, damage)

\* server.js 632-634: the health kept in the record
StoredHealth(h) == IF LessEqZero(h) THEN JNum(0) ELSE h

\* an event that carries a health or a position for one id
Carrying(type, to, id, body) == Msg(type, to, id, {}, [x \in {id} |-> body])

playerDamaged(c, d) ==
    /\ c \in open
    /\ IF ~d.isObject
       \* server.js 620: destructuring an undefined payload raises TypeError
       THEN Crash("playerDamaged", c, d)
       ELSE
       /\ IF d.targetId \in DOMAIN players
          THEN LET h == DamagedHealth(players[d.targetId].health, d.damage)
               IN /\ players' = [players EXCEPT ![d.targetId].health = StoredHealth(h)]
                  /\ ev' = Event("playerDamaged", c, d, << players[d.targetId] >>,
                                 << Carrying("healthUpdate", open, d.targetId,
                                             [health |-> h]) >>
                                 \o (IF LessEqZero(h)
                                     THEN << Plain("playerDefeated", open, d.targetId) >>
                                     ELSE << >>),
                                 {}, FALSE)
          ELSE /\ players' = players
               /\ ev' = Event("playerDamaged", c, d, << >>, << >>, {}, FALSE)
       /\ UNCHANGED << nextId, open, potentialGhostPlayers, activeSessions, joinLog, up >>

-----------------------------------------------------------------------------
(* Server: playerRespawn (server.js 643-659)                                *)

\* server.js 646-651: the record after a respawn with a payload object
RespawnRecord(old, d) ==
    [old EXCEPT !.health = JNum(100),
                !.position = IF d.position.k = "object" THEN d.position
                             ELSE old.position]

playerRespawn(c, d) ==
    /\ c \in open
    /\ IF c \in DOMAIN players /\ ~d.isObject
       \* server.js 649: data.position of an undefined payload raises
       \* TypeError, after the health has been reset
       THEN Crash("playerRespawn", c, d)
       ELSE
       /\ IF c \in DOMAIN players
          THEN LET rec == RespawnRecord(players[c], d)
               IN /\ players' = [players EXCEPT ![c] = rec]
                  /\ ev' = Event("playerRespawn", c, d, << players[c] >>,
                                 << Carrying("playerRespawned", open, c,
                                             [position |-> rec.position]) >>,
                                 {}, FALSE)
          ELSE /\ players' = players
               /\ ev' = Event("playerRespawn", c, d, << >>, << >>, {}, FALSE)
       /\ UNCHANGED << nextId, open, potentialGhostPlayers, activeSessions, joinLog, up >>

-----------------------------------------------------------------------------
(* Server: requestExistingPlayers (421-425), requestActivePlayersList (786-794) *)

requestExistingPlayers(c) ==
    /\ c \in open
    /\ ev' = Event("requestExistingPlayers", c, NoPayload, << >>,
                   << sendExistingPlayersToClient(c, players) >>, {}, FALSE)
    /\ UNCHANGED serverVars

requestActivePlayersList(c) ==
    /\ c \in open
    /\ ev' = Event("requestActivePlayersList", c, NoPayload, << >>,
                   << Msg("activePlayersList", {c}, c,
                          {id \in DOMAIN players : players[id].fullyRegistered},
                          EmptyMap) >>, {}, FALSE)
    /\ UNCHANGED serverVars

-----------------------------------------------------------------------------
(* Server: the ghost sweep (server.js 122-185) and the 15 s interval       *)
(* callback that runs it and then re-broadcasts every registered record    *)
(* (server.js 188-212).                                                    *)

\* player.lastActivity || player.joinedAt
LastActivityOf(p) == IF p.lastActivity # 0 THEN p.lastActivity ELSE p.joinedAt

InactiveDuration(p, t) == t - LastActivityOf(p)

\* server.js 137: the record is taken for a potential ghost
IsInactive(p, t) == InactiveDuration(p, t) > inactiveTimeout

\* the flag the sweep works with: the existing one, or the one it has just set
SweepFlag(ghosts, id, t) ==
    IF id \in DOMAIN ghosts THEN ghosts[id]
    ELSE [firstDetectedAt |-> t, reason |-> "inactive"]

\* a sweep without the two-minute ceiling
SweepRemovesFlagOnly(p, flag, t) ==
    /\ IsInactive(p, t)
    /\ t - flag.firstDetectedAt > ghostConfirmDelay

\* server.js 148-149: the record is removed by this run
SweepRemoves(p, flag, t) ==
    /\ IsInactive(p, t)
    /\ \/ InactiveDuration(p, t) > hardCeiling
       \/ t - flag.firstDetectedAt > ghostConfirmDelay

\* the ids the run removes
SweepRemoved(ps, ghosts, t) ==
    {id \in DOMAIN ps : SweepRemoves(ps[id], SweepFlag(ghosts, id, t), t)}

\* a sweep that dates the flags it leaves so far back that its next run
\* takes them for confirmed
SweepGhostsBackdated(ps, ghosts, t) ==
    LET gone == SweepRemoved(ps, ghosts, t)
        flagged == {id \in DOMAIN ps : IsInactive(ps[id], t)} \ gone
    IN [id \in (DOMAIN ghosts \ gone) \cup flagged |->
            IF id \in flagged
            THEN [firstDetectedAt |-> t - ghostConfirmDelay - 1, reason |-> "inactive"]
            ELSE ghosts[id]]

\* potentialGhostPlayers after the run: flags of removed and of active records
\* are deleted, inactive records are flagged, flags without a record are kept
SweepGhosts(ps, ghosts, t) ==
    LET gone == SweepRemoved(ps, ghosts, t)
        active == {id \in DOMAIN ps : ~IsInactive(ps[id], t)}
        flagged == {id \in DOMAIN ps : IsInactive(ps[id], t)} \ gone
    IN [id \in ((DOMAIN ghosts \ gone) \ active) \cup flagged |->
            SweepFlag(ghosts, id, t)]

\* a sweep that deletes its records without telling anyone
SweepLeftEmitsNone(order, sockets) == << >>

\* server.js 159-170: io.emit('playerLeft', ...) for each record removed
SweepLeftEmits(order, sockets) ==
    [i \in 1..Len(order) |-> Plain("playerLeft", sockets, order[i])]

\* an interval that sends no forced sync
SyncEmitsNone(ps, sockets) == << >>

\* server.js 192-211: the forced sync of the records left after the sweep
SyncEmits(ps, sockets) ==
    LET ids == KeysInOrder({id \in DOMAIN ps :
                   ps[id].fullyRegistered /\ ps[id].position.k # "undefined"
                   /\ id \in sockets})
    IN [i \in 1..Len(ids) |-> About("playerUpdated", sockets \ {ids[i]}, ids[i], ps[ids[i]])]

cleanupGhostPlayers ==
    /\ now >= sweepDue
    /\ sweepDue' = sweepDue + SweepPeriod
    /\ LET gone == SweepRemoved(players, potentialGhostPlayers, now)
           order == KeysInOrder(gone)
           ps == Drop(players, gone)
       IN /\ players' = ps
          /\ potentialGhostPlayers' = SweepGhosts(players, potentialGhostPlayers, now)
          /\ ev' = Event("cleanupGhostPlayers", 0, NoPayload, << >>,
                         SweepLeftEmits(order, open) \o SyncEmits(ps, open),
                         gone, FALSE)
    /\ UNCHANGED << nextId, open, activeSessions, joinLog, up >>

-----------------------------------------------------------------------------
(* Client: MultiplayerManager's remote-player shadows (src/multiplayer.js) *)
(* What a handler of the manager emits to the server (playerJoin,          *)
(* requestExistingPlayers, ping) is handled by the server in a step of its *)
(* own; the specifications let every open socket, the manager's included,  *)
(* send any of these requests at any instant.                              *)

\* Coordinates of a mesh are exact fractions << numerator, denominator >> in
\* lowest terms with a positive denominator.
\* updateRemotePlayer 2104: the distance beyond which a mesh is moved at once
SnapDistance == 5

\* how far the clock of the manager's machine is behind the server's, in ms
ClockSkew == 1

RECURSIVE GCD(_, _)
GCD(a, b) == IF b = 0 THEN a ELSE GCD(b, a % b)

Magnitude(n) == IF n < 0 THEN 0 - n ELSE n

\* the value of F at v, v being computed once
At(v, F(_)) == CHOOSE r \in {F(x) : x \in {v}} : TRUE

RNorm(n, d) ==
    At(<< n, d >>, LAMBDA v :
        At(GCD(Magnitude(v[1]), v[2]), LAMBDA g : << v[1] \div g, v[2] \div g >>))

LCM(a, b) == (a \div GCD(a, b)) * b

Whole(n) == << n, 1 >>

RAdd(p, q) ==
    At(<< p, q >>, LAMBDA v :
        At(LCM(v[1][2], v[2][2]), LAMBDA l :
            RNorm(v[1][1] * (l \div v[1][2]) + v[2][1] * (l \div v[2][2]), l)))

RSub(p, q) == RAdd(p, << 0 - q[1], q[2] >>)

RMul(p, q) ==
    LET a == RNorm(p[1], q[2])
        b == RNorm(q[1], p[2])
    IN << a[1] * b[1], a[2] * b[2] >>

RAbs(p) == << Magnitude(p[1]), p[2] >>

RLess(p, q) == p[1] * q[2] < q[1] * p[2]

Axes == {"x", "y", "z"}

\* the greatest denominator among a mesh position's coordinates
Denominator(mesh) ==
    CHOOSE d \in {mesh[a][2] : a \in Axes} : \A a \in Axes : mesh[a][2] <= d

\* the straight-line distance between two mesh positions is greater than r
FartherThan(p, q, r) ==
    LET diff == [a \in Axes |-> RSub(p[a], q[a])]
        D == LCM(LCM(diff.x[2], diff.y[2]), diff.z[2])
        s(a) == diff[a][1] * (D \div diff[a][2])
    IN s("x") * s("x") + s("y") * s("y") + s("z") * s("z") > r * r * D * D

\* the straight-line distance between two mesh positions is less than r
CloserThan(p, q, r) ==
    LET diff == [a \in Axes |-> RSub(p[a], q[a])]
        D == LCM(LCM(diff.x[2], diff.y[2]), diff.z[2])
        s(a) == diff[a][1] * (D \div diff[a][2])
    IN s("x") * s("x") + s("y") * s("y") + s("z") * s("z") < r * r * D * D

\* the mesh position a wire position gives (1520-1527, 2109): a coordinate
\* that is no number counts as 0
MeshPosition(position) ==
    [a \in Axes |-> IF position[a][1] = "number" THEN Whole(position[a][2])
                   ELSE Whole(0)]

\* addRemotePlayer (1362-1530): a known id only has its name refreshed; a new
\* shadow keeps the position it was sent (position, 1403) and its mesh is
\* made at that position (mesh).  The delayed callback that puts the mesh at
\* the stored position once more (1520-1527) is left out.
addRemotePlayer(rp, id, w, t) ==
    IF id \in DOMAIN rp
    THEN [rp EXCEPT ![id].name = IF w.name # << >> THEN w.name ELSE @]
    ELSE Put(rp, id,
             [name |-> IF w.name # << >> THEN w.name ELSE DefaultName(id),
              lastUpdateTime |-> t,
              position |-> MeshPosition(w.position),
              mesh |-> MeshPosition(w.position),
              targetPosition |-> NoPos,
              lastPositionUpdateTime |-> 0,
              serverConfirmedInactive |-> FALSE])

\* updateRemotePlayer 2103-2107: the mesh is more than SnapDistance away from
\* the new position on some axis
SnapsPerAxis(mesh, target) ==
    \E a \in Axes : RLess(Whole(SnapDistance), RAbs(RSub(mesh[a], target[a])))

Snaps(mesh, target) == SnapsPerAxis(mesh, target)

\* updateRemotePlayer (2021-2140): stamps _lastUpdateTime, refreshes the name
\* and, the player's mesh being in the scene, takes a valid position as the
\* target of the interpolation; a mesh too far from it is moved there at
\* once, and the stored position with it
updateRemotePlayer(rp, id, w, t) ==
    IF id \in DOMAIN rp
    THEN [rp EXCEPT ![id].lastUpdateTime = t,
                    ![id].name = IF w.name # << >> THEN w.name ELSE @,
                    ![id].targetPosition = IF IsValidPosition(w.position)
                                           THEN w.position ELSE @,
                    ![id].mesh =
                        IF IsValidPosition(w.position)
                           /\ Snaps(@, MeshPosition(w.position))
                        THEN MeshPosition(w.position) ELSE @,
                    ![id].position =
                        IF IsValidPosition(w.position)
                           /\ Snaps(rp[id].mesh, MeshPosition(w.position))
                        THEN MeshPosition(w.position) ELSE @,
                    ![id].lastPositionUpdateTime =
                        IF IsValidPosition(w.position) THEN t ELSE @]
    ELSE rp

\* 'playerUpdated' 816-819, update 2918-2921: the mesh is more than 0.01 away
\* from the position on some axis
Mismatch(mesh, position) ==
    \E a \in Axes : RLess(<< 1, 100 >>, RAbs(RSub(mesh[a], position[a])))

\* 'playerUpdated' 815-836: after updateRemotePlayer the handler compares the
\* mesh with the position it received and, on a mismatch, puts the mesh
\* there; the stored position and the target are left as they are
ForcedMesh(mesh, position) ==
    IF position.k = "object" /\ Mismatch(mesh, MeshPosition(position))
    THEN MeshPosition(position) ELSE mesh

\* removeRemotePlayer (1943-2015)
removeRemotePlayer(rp, id) == Drop(rp, {id})

\* cleanupGhostPlayers 270: updated within the last 10 s, never removed
RecentlyUpdated(p, t) ==
    p.lastUpdateTime # 0 /\ t - p.lastUpdateTime < recentUpdateWindow

\* a client sweep that removes on absence from the active ids alone
GhostRemovesAbsent(p, id, active, t) == id \notin active

\* a client sweep that removes on inactivity alone
GhostRemovesInactive(p, id, active, t) ==
    /\ ~RecentlyUpdated(p, t)
    /\ p.lastUpdateTime # 0 /\ t - p.lastUpdateTime > inactivityTimeout

\* cleanupGhostPlayers 267-307: the shadow is removed by this run
GhostRemoves(p, id, active, t) ==
    /\ ~RecentlyUpdated(p, t)
    /\ \/ p.lastUpdateTime # 0 /\ t - p.lastUpdateTime > longInactivityTimeout
       \/ /\ p.lastUpdateTime # 0 /\ t - p.lastUpdateTime > inactivityTimeout
          /\ id \notin active

\* cleanupGhostPlayers (250-332): the shadows left after a run
GhostsOf(rp, active, t) == {id \in DOMAIN rp : GhostRemoves(rp[id], id, active, t)}

\* the manager's handling of one incoming event (setupSocketEvents, 440-974)
playerJoined(rp, self, m, t) ==
    IF m.id = self THEN rp
    ELSE IF m.id \in DOMAIN rp THEN updateRemotePlayer(rp, m.id, m.data[m.id], t)
    ELSE addRemotePlayer(rp, m.id, m.data[m.id], t)

\* an existingPlayers handler that does not skip the manager's own id
existingPlayersAll(rp, self, m, t) ==
    [id \in DOMAIN rp \cup DOMAIN m.data |->
        IF id \in DOMAIN m.data
        THEN playerJoined(rp, 0, About("existingPlayers", {}, id, m.data[id]), t)[id]
        ELSE rp[id]]

\* 'existingPlayers' (610-635): every listed player but the manager's own
\* is added, or updated when known
existingPlayers(rp, self, m, t) ==
    [id \in DOMAIN rp \cup (DOMAIN m.data \ {self}) |->
        IF id \in DOMAIN m.data \ {self}
        THEN playerJoined(rp, self, About("existingPlayers", {}, id, m.data[id]), t)[id]
        ELSE rp[id]]

playerLeft(rp, m, active, t) ==
    IF m.id \in DOMAIN rp THEN removeRemotePlayer(rp, m.id)
    ELSE Drop(rp, GhostsOf(rp, active, t))

playerUpdated(rp, m, t) ==
    IF m.id \notin DOMAIN rp
    THEN IF m.data[m.id].name # << >> /\ m.data[m.id].characterType # "undefined"
         THEN addRemotePlayer(rp, m.id, m.data[m.id], t)
         ELSE rp
    ELSE [updateRemotePlayer(rp, m.id, m.data[m.id], t) EXCEPT
             ![m.id].mesh = ForcedMesh(@, m.data[m.id].position)]

activePlayersList(rp, self, m) ==
    [id \in DOMAIN rp |->
        IF id \notin m.ids /\ id # self
        THEN [rp[id] EXCEPT !.serverConfirmedInactive = TRUE]
        ELSE rp[id]]

\* ---- network statistics (constructor 12-22, 3604-3706) ----
\* packetsReceived, lastMeasurement, averageLatency and jitter are written
\* and never read outside the assessment: the model keeps the samples, the
\* quality level, the interpolation time and the running intervals.

\* _networkStats.maxSamples
maxSamples == 50

\* _networkStats.measurementInterval
measurementInterval == 5000

\* update 2841: the time between two ghost checks of the update loop
ghostCheckPeriod == 30000

\* what Date.now() gives on the manager's machine, whose clock is ClockSkew
\* behind the server's
ManagerClock(t) == t - ClockSkew

\* _startNetworkMonitoring (3604-3621): the statistics start afresh and one
\* more assessment interval runs; no interval is ever cleared
_startNetworkMonitoring(m, t) ==
    [m EXCEPT !.latencies = << >>,
              !.qualityLevel = "unknown",
              !.assessDue = @ \cup {t + measurementInterval}]

\* _trackLatency 3625: the sample is skipped
InvalidLatency(latency) ==
    \/ latency[1] \notin {"number", "Infinity"}
    \/ latency[2] < 0

\* a buffer that also takes the samples the code skips
_trackLatencyAll(m, latency) ==
    [m EXCEPT !.latencies = IF Len(@) + 1 > maxSamples
                            THEN Tail(Append(@, latency)) ELSE Append(@, latency)]

\* _trackLatency (3623-3637)
_trackLatency(m, latency) ==
    IF InvalidLatency(latency) THEN m
    ELSE [m EXCEPT !.latencies = IF Len(@) + 1 > maxSamples
                                 THEN Tail(Append(@, latency)) ELSE Append(@, latency)]

\* the 'playerUpdated' handler 770-774: an event with a timestamp gives a sample
TrackUpdate(m, e, t) ==
    IF e.type = "playerUpdated" /\ e.timestamp # 0
    THEN _trackLatency(m, JNum(ManagerClock(t) - e.timestamp))
    ELSE m

RECURSIVE SumOf(_)
SumOf(l) == IF l = << >> THEN 0 ELSE Head(l)[2] + SumOf(Tail(l))

\* the sum of the differences between consecutive samples (3650-3653)
RECURSIVE JitterSum(_)
JitterSum(l) ==
    IF Len(l) < 2 THEN 0
    ELSE Magnitude(l[2][2] - l[1][2]) + JitterSum(Tail(l))

\* averageLatency < bound (3645-3646); an infinite sample makes the average
\* infinite
AverageBelow(l, bound) ==
    /\ \A i \in 1..Len(l) : l[i][1] = "number"
    /\ SumOf(l) < bound * Len(l)

\* jitter < bound (3654): 0 for a single sample; an infinite sample makes the
\* jitter infinite or NaN
JitterBelow(l, bound) ==
    /\ \A i \in 1..Len(l) : l[i][1] = "number"
    /\ Len(l) > 1 => JitterSum(l) < bound * (Len(l) - 1)

\* a classification by the average latency alone
QualityByAverage(l) ==
    IF AverageBelow(l, 50) THEN "excellent"
    ELSE IF AverageBelow(l, 100) THEN "good"
    ELSE IF AverageBelow(l, 200) THEN "fair"
    ELSE "poor"

\* _assessNetworkQuality 3656-3665
Quality(l) ==
    IF AverageBelow(l, 50) /\ JitterBelow(l, 10) THEN "excellent"
    ELSE IF AverageBelow(l, 100) /\ JitterBelow(l, 20) THEN "good"
    ELSE IF AverageBelow(l, 200) /\ JitterBelow(l, 50) THEN "fair"
    ELSE "poor"

\* _adjustInterpolationSettings (3682-3706)
_adjustInterpolationSettings(quality) ==
    CASE quality = "excellent" -> 50
      [] quality = "good" -> 100
      [] quality = "fair" -> 150
      [] quality = "poor" -> 200
      [] OTHER -> 100

\* _assessNetworkQuality (3639-3680)
_assessNetworkQuality(m) ==
    IF Len(m.latencies) > 0
    THEN [m EXCEPT !.qualityLevel = Quality(m.latencies),
                   !._interpolationTime =
                        _adjustInterpolationSettings(Quality(m.latencies))]
    ELSE m

\* ---- interpolation (3536-3601) ----

\* interpolatePlayerPositions 3559: the window, 100 ms while none is set
InterpolationWindow(m) ==
    IF m._interpolationTime = 0 THEN 100 ELSE m._interpolationTime

\* 3564-3567: the mesh moved towards the target by the factor
Blend(mesh, target, factor) ==
    [a \in Axes |-> RAdd(mesh[a], RMul(RSub(target[a], mesh[a]), factor))]


\* 3579-3582: the mesh is farther than 0.01 from the target on some axis
OffTarget(mesh, target) ==
    \E a \in Axes : RLess(<< 1, 100 >>, RAbs(RSub(mesh[a], target[a])))

\* interpolatePlayerPositions 3558-3599 for one shadow: the factor is the
\* share of the window that has passed since the last position update
InterpolatedPosition(p, t, window) ==
    LET elapsed == t - p.lastPositionUpdateTime
        target == MeshPosition(p.targetPosition)
    IN IF elapsed < window
       THEN Blend(p.mesh, target, RNorm(elapsed, window))
       ELSE IF OffTarget(p.mesh, target) THEN target ELSE p.mesh

\* 3564-3599: the interpolation writes the stored position whenever it moves
\* the mesh, by a blend or by the final move; otherwise it writes neither
Interpolates(p, t, window) ==
    t - p.lastPositionUpdateTime < window
    \/ OffTarget(p.mesh, MeshPosition(p.targetPosition))

\* interpolatePlayerPositions (3536-3601)
interpolatePlayerPositions(rp, t, window) ==
    [id \in DOMAIN rp |->
        IF rp[id].targetPosition.k = "object" /\ Interpolates(rp[id], t, window)
        THEN [rp[id] EXCEPT !.mesh = InterpolatedPosition(rp[id], t, window),
                            !.position = InterpolatedPosition(rp[id], t, window)]
        ELSE rp[id]]

\* update 2910-2927: a mesh that is not where the stored position is, is put
\* there
syncMeshes(rp) ==
    [id \in DOMAIN rp |->
        IF Mismatch(rp[id].mesh, rp[id].position)
        THEN [rp[id] EXCEPT !.mesh = rp[id].position]
        ELSE rp[id]]

\* ---- session: registration, heartbeat, reconnection ----
\* The manager's record holds, besides the fields of the constructor (6-94):
\*   heartbeatDue          due time of the heartbeat interval (0: none runs)
\*   pingPending           a ping has been emitted and not answered
\*   pendingRegistrations  the once('connect') handlers connect() has left
\*   timers                the setTimeout callbacks that have not run yet
\*   sent                  what the last handler emitted to the server
\*   scheduledAttempts     history: how many attempts reconnect() has scheduled
\*   sockets               history: how many sockets io() has made (402)
\*   connecting            the socket is trying to connect: after io() with
\*                         autoConnect (402-409), after socket.connect(), and
\*                         after a disconnect the socket.io client answers by
\*                         itself (reconnection: true); socket.disconnect() ends it
\*   owed                  reconnect() has scheduled an attempt, and since then
\*                         neither a connection attempt was issued on the socket
\*                         nor has the socket connected

\* the local player: what the game hands to connect (364-376)
LocalName == << "L" >>
LocalCharacter == "knight"
LocalSword == "normal"

\* constructor 54: the session id made when the manager is built
LocalSession == "s9"

\* constructor 57
maxReconnectAttempts == 5

\* startHeartbeat 1008, 998, 1002
heartbeatPeriod == 2000
responseTimeout == 5000
maxTimeouts == 3

\* reconnect 1091, 1090, 1105; registerPlayer 1191
transportDelay == 500
refreshDelay == 2000
standardDelay == 1000
registrationDelay == 500

ToServer(type, data) == [type |-> type, data |-> data]

\* a registration that carries the session id of before the last reconnect()
SessionBefore(m) == m.previousSessionId

\* registerPlayer 1133: the session id the registration carries
SessionSent(m) == m.sessionId

\* registerPlayer 1126-1139: the payload of playerJoin (its position is the
\* origin while no player state is saved)
Registration(m) ==
    [NoPayload EXCEPT !.name = LocalName, !.characterType = LocalCharacter,
                      !.swordType = LocalSword, !.position = Origin,
                      !.sessionId = SessionSent(m)]

\* registerPlayer (1113-1192) on a connected socket: playerJoin, and
\* playerReconnected when a reconnection is under way; 500 ms later
\* requestExistingPlayers, and the end of the reconnection
registerPlayer(m, t) ==
    [m EXCEPT !.sent = @ \o << ToServer("playerJoin", Registration(m)) >>
                         \o (IF m.isReconnecting /\ m.previousSessionId # ""
                             THEN << ToServer("playerReconnected", NoPayload) >>
                             ELSE << >>),
              !.timers = @ \cup {[due |-> t + registrationDelay, kind |-> "registered",
                                  reset |-> m.isReconnecting]}]

\* the registrations of the 'connect' event: the handler's (456-469), then
\* one for each once('connect') handler that connect() has left (430-433)
RECURSIVE Registrations(_, _, _)
Registrations(m, n, t) ==
    IF n = 0 THEN m ELSE Registrations(registerPlayer(m, t), n - 1, t)

\* startHeartbeat (979-1009)
startHeartbeat(m, t) ==
    [m EXCEPT !.heartbeatDue = t + heartbeatPeriod, !.lastServerResponse = t]

\* connect (364-435) when the game calls it first: the socket is made, the
\* heartbeat and the ghost cleanup are started and, the socket not being
\* connected yet, a once('connect') handler is left
FirstConnect(m, t) ==
    [startHeartbeat(m, t) EXCEPT !.pendingRegistrations = @ + 1,
                                 !.sockets = @ + 1,
                                 !.connecting = TRUE]

\* the 'connect' handler (447-470), the player name being known, and the
\* once('connect') handlers after it
OnConnect(m, t) ==
    LET started == [_startNetworkMonitoring(m, t) EXCEPT !.sent = << >>]
        first == registerPlayer(started, t)
        asked == [first EXCEPT !.sent = @ \o << ToServer("requestExistingPlayers",
                                                         NoPayload) >>]
    IN [Registrations(asked, m.pendingRegistrations, t) EXCEPT
            !.pendingRegistrations = 0, !.pingPending = FALSE,
            !.connecting = FALSE, !.owed = FALSE]

\* a reconnect() that schedules an attempt whatever the counter says
reconnectAlways(m, reason, t) ==
    IF m._isReconnecting THEN m
    ELSE [m EXCEPT !._isReconnecting = TRUE,
                   !.reconnectAttempts = @ + 1,
                   !.previousSessionId = m.sessionId,
                   !.isReconnecting = TRUE,
                   !.timers = @ \cup {[due |-> t + standardDelay, kind |-> "standard",
                                       reset |-> FALSE]},
                   !.scheduledAttempts = @ + 1,
                   !.owed = TRUE]

\* a reconnect() that does not look at the flag of a reconnection under way
reconnectUnguarded(m, reason, t) ==
    IF m.reconnectAttempts + 1 > maxReconnectAttempts
    THEN [m EXCEPT !.reconnectAttempts = @ + 1, !._isReconnecting = FALSE]
    ELSE [m EXCEPT !._isReconnecting = TRUE,
                   !.reconnectAttempts = @ + 1,
                   !.previousSessionId = m.sessionId,
                   !.isReconnecting = TRUE,
                   !.timers = @ \cup {[due |-> t + standardDelay, kind |-> "standard",
                                       reset |-> FALSE]},
                   !.scheduledAttempts = @ + 1,
                   !.owed = TRUE]

\* reconnect (1015-1107); for a transport reason the socket is disconnected
\* at once (1066-1076)
reconnect(m, reason, t) ==
    IF m._isReconnecting THEN m
    ELSE IF m.reconnectAttempts + 1 > maxReconnectAttempts
    THEN [m EXCEPT !.reconnectAttempts = @ + 1]
    ELSE [m EXCEPT !._isReconnecting = TRUE,
                   !.reconnectAttempts = @ + 1,
                   !.previousSessionId = m.sessionId,
                   !.isReconnecting = TRUE,
                   !.timers = @ \cup
                        {IF reason \in {"transport close", "transport error"}
                         THEN [due |-> t + transportDelay, kind |-> "transport",
                               reset |-> FALSE]
                         ELSE [due |-> t + standardDelay, kind |-> "standard",
                               reset |-> FALSE]},
                   !.scheduledAttempts = @ + 1,
                   !.connecting = IF reason \in {"transport close", "transport error"}
                                  THEN FALSE ELSE @,
                   !.owed = TRUE]

\* the 'disconnect' handler (528-559): the heartbeat is cleared, and
\* reconnect() is called for two of the reasons
OnDisconnect(m, reason, t) ==
    LET cleared == [m EXCEPT !.heartbeatDue = 0, !.sent = << >>,
                             !.connecting = reason \notin {"io server disconnect",
                                                           "io client disconnect"}]
    IN IF reason \in {"io server disconnect", "transport close"}
       THEN reconnect(cleared, reason, t)
       ELSE cleared

\* connectionTimeouts++ (999): the field is undefined until a ping is answered
Increment(v) == IF v[1] = "number" THEN JNum(v[2] + 1) ELSE JNaN

\* the events of a handler's emits that reach the manager's socket
Inbound(emits, self, isConnected) ==
    IF isConnected THEN SelectSeq(emits, LAMBDA m : self \in m.to) ELSE << >>

\* what a server step leaves in the manager's inbox
Deliver == inbox' = inbox \o Inbound(ev'.emits, localId, connected)

\* the greatest timestamp among the playerUpdated events handled for each
\* shadow the manager has
Newest(old, rp, m) ==
    [id \in DOMAIN rp \cap (DOMAIN old \cup
                             (IF m.type = "playerUpdated" /\ m.timestamp # 0
                              THEN {m.id} ELSE {})) |->
        IF m.type = "playerUpdated" /\ m.timestamp # 0 /\ id = m.id
           /\ (id \notin DOMAIN old \/ m.timestamp >= old[id])
        THEN m.timestamp
        ELSE old[id]]

\* the manager's handling of the event m (setupSocketEvents, 440-974)
Handle(m) ==
    /\ LET before == IF m.type \in {"playerUpdated", "playerJoined"}
                        /\ m.id \in DOMAIN remotePlayers
                     THEN << remotePlayers[m.id] >> ELSE << >>
       IN /\ remotePlayers' =
                CASE m.type = "existingPlayers" ->
                        existingPlayers(remotePlayers, localId, m, now)
                  [] m.type = "playerJoined" ->
                        playerJoined(remotePlayers, localId, m, now)
                  [] m.type = "playerLeft" ->
                        playerLeft(remotePlayers, m, activePlayerIds, now)
                  [] m.type = "playerUpdated" -> playerUpdated(remotePlayers, m, now)
                  [] m.type = "activePlayersList" ->
                        activePlayersList(remotePlayers, localId, m)
                  [] OTHER -> remotePlayers
          /\ activePlayerIds' =
                IF m.type \in {"connect_ack", "activePlayersList"}
                THEN m.ids ELSE activePlayerIds
          /\ manager' = TrackUpdate(manager, m, now)
          /\ newest' = Newest(newest, remotePlayers', m)
          /\ ev' = IF m.type = "playerLeft" /\ m.id \notin DOMAIN remotePlayers
                   THEN Event("playerLeftCleanup", localId, NoPayload, << >>, << m >>,
                              GhostsOf(remotePlayers, activePlayerIds, now), FALSE)
                   ELSE Event("receive", localId, NoPayload, before, << m >>, {}, FALSE)
    /\ UNCHANGED << now, sweepDue, localId, connected, cleanupDue >>
    /\ UNCHANGED serverVars

\* the manager handles the next event from the server
receive ==
    /\ inbox # << >>
    /\ inbox' = Tail(inbox)
    /\ Handle(Head(inbox))

\* an event reaches the manager's socket and is handled at once
arrival(m) ==
    /\ connected
    /\ inbox = << >>
    /\ inbox' = inbox
    /\ Handle(m)

\* the manager's socket connects (connect 364-435, 'connect' 447-470): the
\* server runs its connection handler, the manager clears its shadows
connect(c) ==
    /\ up
    /\ ~connected
    /\ Connection(c)
    /\ localId' = c
    /\ connected' = TRUE
    /\ remotePlayers' = EmptyMap
    /\ newest' = EmptyMap
    /\ manager' = OnConnect(IF cleanupDue = 0 THEN FirstConnect(manager, now)
                            ELSE manager, now)
    /\ cleanupDue' = IF cleanupDue = 0 THEN now + cleanupPeriod ELSE cleanupDue
    /\ inbox' = Inbound(ev'.emits, c, TRUE)
    /\ UNCHANGED << now, sweepDue, activePlayerIds >>

\* the manager's 'disconnect' event (528-559) with its reason
socketDisconnect(reason) ==
    /\ connected
    /\ connected' = FALSE
    /\ inbox' = << >>
    /\ manager' = OnDisconnect(manager, reason, now)
    /\ ev' = Event("clientDisconnect", localId, NoPayload,
                   << manager, [reason |-> reason] >>, << >>, {}, FALSE)
    /\ UNCHANGED << now, sweepDue, localId, remotePlayers, activePlayerIds, cleanupDue,
                    newest >>
    /\ UNCHANGED serverVars

\* the socket is lost for a reason the handler does not reconnect for; the
\* socket.io client connects again by itself (reconnection: true, 404)
clientDisconnect == socketDisconnect("ping timeout")

\* the 'reconnect_error' handler (567-576): an attempt of the socket.io
\* client to connect again has failed
reconnect_error ==
    /\ ~connected
    /\ cleanupDue # 0
    /\ manager' = [manager EXCEPT !.reconnectAttempts = @ + 1, !.sent = << >>]
    /\ ev' = Event("reconnect_error", localId, NoPayload, << manager >>, << >>, {},
                   FALSE)
    /\ UNCHANGED << now, sweepDue, localId, connected, remotePlayers, activePlayerIds,
                    cleanupDue, inbox, newest >>
    /\ UNCHANGED serverVars

\* the heartbeat interval (987-1008) runs: a ping is emitted and the time
\* since the last response is checked; the third timeout in a row ends the
\* connection (the 'disconnect' handler runs for 'io client disconnect')
\* and calls reconnect()
heartbeat ==
    /\ manager.heartbeatDue # 0 /\ now >= manager.heartbeatDue
    /\ LET late == now - manager.lastServerResponse > responseTimeout
           timeouts == IF late THEN Increment(manager.connectionTimeouts)
                       ELSE manager.connectionTimeouts
           dead == late /\ timeouts[1] = "number" /\ timeouts[2] >= maxTimeouts
           pinged == [manager EXCEPT !.heartbeatDue = @ + heartbeatPeriod,
                                     !.pingPending = TRUE,
                                     !.connectionTimeouts = timeouts,
                                     !.sent = << ToServer("ping", NoPayload) >>]
       IN /\ manager' = IF dead
                        THEN reconnect(IF connected
                                       THEN OnDisconnect(pinged, "io client disconnect",
                                                         now)
                                       ELSE [pinged EXCEPT !.connecting = FALSE],
                                       "", now)
                        ELSE pinged
          /\ connected' = IF dead THEN FALSE ELSE connected
          /\ inbox' = IF dead THEN << >> ELSE inbox
    /\ ev' = Event("heartbeat", localId, NoPayload, << manager >>, << >>, {}, FALSE)
    /\ UNCHANGED << now, sweepDue, localId, remotePlayers, activePlayerIds, cleanupDue,
                    newest >>
    /\ UNCHANGED serverVars

\* the server handles the manager's ping (server.js 428-451) and its
\* acknowledgement reaches the callback of the emit (989-994)
pingResponse ==
    /\ connected /\ up
    /\ manager.pingPending
    /\ ping(localId)
    /\ manager' = [manager EXCEPT !.lastServerResponse = now,
                                  !.connectionTimeouts = JNum(0),
                                  !.pingPending = FALSE,
                                  !.sent = << >>]
    /\ UNCHANGED << now, sweepDue, localId, connected, remotePlayers, activePlayerIds,
                    cleanupDue, inbox, newest >>

\* a setTimeout callback of reconnect (1080-1105) or registerPlayer
\* (1181-1191) runs
timeout(timer) ==
    /\ timer \in manager.timers
    /\ now >= timer.due
    /\ LET rest == [manager EXCEPT !.timers = @ \ {timer}, !.sent = << >>]
       IN manager' =
            CASE timer.kind = "standard" ->
                    \* 1097-1104: socket.connect(), or connect() when the socket is
                    \* connected, which returns at once
                    [rest EXCEPT !._isReconnecting = FALSE,
                                 !.connecting = IF connected THEN @ ELSE TRUE,
                                 !.owed = FALSE]
              [] timer.kind = "transport" ->
                    \* 1083-1090: connect() leaves a once('connect') handler unless
                    \* the manager is connected; forceRefresh is scheduled
                    [rest EXCEPT !.pendingRegistrations =
                                    IF connected THEN @ ELSE @ + 1,
                                 !.owed = IF connected THEN FALSE ELSE @,
                                 !.timers = @ \cup {[due |-> now + refreshDelay,
                                                     kind |-> "refresh",
                                                     reset |-> FALSE]}]
              [] timer.kind = "refresh" ->
                    \* 1086-1089: forceRefresh asks for the players when connected
                    [rest EXCEPT !._isReconnecting = FALSE,
                                 !.sent = IF connected
                                          THEN << ToServer("requestExistingPlayers",
                                                           NoPayload) >>
                                          ELSE << >>]
              [] OTHER ->
                    \* 1181-1191
                    [rest EXCEPT !.sent = << ToServer("requestExistingPlayers",
                                                      NoPayload) >>,
                                 !.isReconnecting = IF timer.reset THEN FALSE ELSE @]
    /\ ev' = Event("timeout", localId, NoPayload, << manager >>, << >>, {}, FALSE)
    /\ UNCHANGED << now, sweepDue, localId, connected, remotePlayers, activePlayerIds,
                    cleanupDue, inbox, newest >>
    /\ UNCHANGED serverVars

\* the due times of the heartbeat and of the setTimeout callbacks
SessionDue ==
    {timer.due : timer \in manager.timers}
    \cup (IF manager.heartbeatDue # 0 THEN {manager.heartbeatDue} ELSE {})

\* time passes until the next of them is due
wait(limit) ==
    /\ inbox = << >>
    /\ SessionDue # {}
    /\ \A d \in SessionDue : now < d
    /\ Min(SessionDue) <= limit
    /\ now' = Min(SessionDue)
    /\ ev' = Event("tick", 0, NoPayload, << >>, << >>, {}, FALSE)
    /\ UNCHANGED << sweepDue >>
    /\ UNCHANGED serverVars
    /\ UNCHANGED clientVars

\* the 5 s interval of setupGhostPlayerCleanup (229-245) runs cleanupGhostPlayers.
\* The clock moves in steps of several periods; the runs that fell inside a
\* step saw younger shadows and the same active ids, and removed nothing the
\* run at the end of the step does not remove.
clientCleanupGhostPlayers ==
    /\ cleanupDue # 0 /\ now >= cleanupDue
    /\ cleanupDue' = now + cleanupPeriod
    /\ LET gone == GhostsOf(remotePlayers, activePlayerIds, now)
       IN /\ remotePlayers' = Drop(remotePlayers, gone)
          /\ newest' = Drop(newest, gone)
          /\ ev' = Event("clientCleanupGhostPlayers", localId, NoPayload, << >>,
                         << >>, gone, FALSE)
    /\ UNCHANGED << now, sweepDue, localId, connected, activePlayerIds, inbox,
                    manager >>
    /\ UNCHANGED serverVars

\* an interval callback of the manager is due
ManagerTimerDue(t) ==
    \/ cleanupDue # 0 /\ t >= cleanupDue
    \/ \E d \in manager.assessDue : t >= d

\* no interval callback of the manager falls due before t
NoManagerTimerBefore(t) ==
    /\ cleanupDue # 0 => t <= cleanupDue
    /\ \A d \in manager.assessDue : t <= d

\* update (2834-2990), the manager's part of a frame drawn at the instant t:
\* the ghost check every 30 s, then the interpolation of every shadow, then
\* the loop that puts each mesh where the shadow's stored position is.  The
\* upload of the local player's position is a request the server handles in
\* a step of its own.
update(t) ==
    /\ connected
    /\ inbox = << >>
    /\ now < t
    /\ ~ManagerTimerDue(now)
    /\ NoManagerTimerBefore(t)
    /\ now' = t
    /\ LET check == manager._lastGhostCheck = 0
                     \/ t - manager._lastGhostCheck > ghostCheckPeriod
           gone == IF check THEN GhostsOf(remotePlayers, activePlayerIds, t) ELSE {}
           kept == Drop(remotePlayers, gone)
       IN /\ \E interpolated \in
                   {interpolatePlayerPositions(kept, t, InterpolationWindow(manager))} :
                remotePlayers' = syncMeshes(interpolated)
          /\ manager' = [manager EXCEPT !._lastGhostCheck = IF check THEN t ELSE @]
          /\ newest' = Drop(newest, gone)
          /\ ev' = Event("update", localId, NoPayload, << kept >>, << >>, gone, FALSE)
    /\ UNCHANGED << sweepDue, localId, connected, activePlayerIds, cleanupDue, inbox >>
    /\ UNCHANGED serverVars

\* the interval of _startNetworkMonitoring (3617-3620) runs
\* _assessNetworkQuality; the intervals outlive the connection
assessNetworkQuality ==
    /\ \E d \in manager.assessDue :
          /\ now >= d
          /\ manager' = [_assessNetworkQuality(manager) EXCEPT
                            !.assessDue = (@ \ {d}) \cup {d + measurementInterval}]
    /\ ev' = Event("assessNetworkQuality", localId, NoPayload, << manager >>, << >>,
                   {}, FALSE)
    /\ UNCHANGED << now, sweepDue, localId, connected, remotePlayers, activePlayerIds,
                    cleanupDue, inbox, newest >>
    /\ UNCHANGED serverVars

\* a call of _trackLatency (3623-3637) with the sample latency
trackLatency(latency) ==
    /\ manager' = _trackLatency(manager, latency)
    /\ ev' = Event("trackLatency", localId, NoPayload,
                   << [latencies |-> manager.latencies, sample |-> latency] >>,
                   << >>, {}, FALSE)
    /\ UNCHANGED << now, sweepDue, localId, connected, remotePlayers, activePlayerIds,
                    cleanupDue, inbox, newest >>
    /\ UNCHANGED serverVars

-----------------------------------------------------------------------------
(* The clock.  Requests reach the server at instants SweepPeriod apart;   *)
(* the server's interval timer runs out of phase with them, so the clock   *)
(* stops at the instants of the requests and at those of the sweep.  A due *)
(* interval callback runs before time moves on.                            *)

\* an instant at which requests arrive
OnGrid == now % SweepPeriod = 0

\* the next instant the clock stops at
NextInstant ==
    LET grid == ((now \div SweepPeriod) + 1) * SweepPeriod
    IN IF now < sweepDue /\ sweepDue < grid THEN sweepDue ELSE grid

Tick(limit) ==
    /\ inbox = << >>
    /\ NextInstant <= limit
    /\ now < sweepDue
    /\ cleanupDue = 0 \/ now < cleanupDue
    /\ now' = NextInstant
    /\ ev' = Event("tick", 0, NoPayload, << >>, << >>, {}, FALSE)
    /\ UNCHANGED << sweepDue >>
    /\ UNCHANGED serverVars
    /\ UNCHANGED clientVars

\* a server handler runs, once the manager has handled what it was sent
\* before: the events the handler emits to the manager's socket are queued
\* for the manager; nothing else of the client changes
ServerStep ==
    /\ up
    /\ inbox = << >>
    /\ Deliver
    /\ UNCHANGED << now, localId, connected, remotePlayers, activePlayerIds, cleanupDue,
                    manager, newest >>

Init ==
    /\ now = SweepPeriod
    /\ nextId = 1
    /\ open = {}
    /\ players = EmptyMap
    /\ potentialGhostPlayers = EmptyMap
    /\ activeSessions = {}
    /\ up = TRUE
    /\ sweepDue = SweepPeriod + 2 * cleanupPeriod
    /\ localId = 0
    /\ connected = FALSE
    /\ remotePlayers = EmptyMap
    /\ activePlayerIds = {}
    /\ cleanupDue = 0
    /\ inbox = << >>
    /\ joinLog = EmptyMap
    /\ manager = [latencies |-> << >>, qualityLevel |-> "unknown",
                  _interpolationTime |-> 0, assessDue |-> {}, _lastGhostCheck |-> 0,
                  sessionId |-> LocalSession, previousSessionId |-> "",
                  heartbeatDue |-> 0, lastServerResponse |-> 0,
                  connectionTimeouts |-> JUndefined, pingPending |-> FALSE,
                  reconnectAttempts |-> 0, _isReconnecting |-> FALSE,
                  isReconnecting |-> FALSE, pendingRegistrations |-> 0,
                  timers |-> {}, sent |-> << >>, scheduledAttempts |-> 0,
                  sockets |-> 0, connecting |-> FALSE, owed |-> FALSE]
    /\ newest = EmptyMap
    /\ ev = [kind |-> "init", conn |-> 0, payload |-> NoPayload, before |-> << >>,
             keys |-> {}, ghosts |-> EmptyMap, emits |-> << >>, removed |-> {},
             invalid |-> FALSE, raised |-> FALSE,
             registry |-> EmptyMap, was |-> EmptyMap]

-----------------------------------------------------------------------------
(* Payloads the clients send *)

Join(name, sessionId, position, characterType) ==
    [NoPayload EXCEPT !.name = name, !.sessionId = sessionId,
                      !.position = position, !.characterType = characterType]

JoinInputs ==
    { Join(<< "R" >>, "s1", NoPos, ""),
      Join(<< " ", "R" >>, "", Pos(JNaN, JNum(0), JString), "ninja"),
      Join(<< " " >>, "s2", Pos(JNum(1), JNum(0), JNum(0)), "") }

UpdateInputs ==
    { [NoPayload EXCEPT !.position = Pos(JNum(1), JNum(0), JNum(0))],
      [NoPayload EXCEPT !.position = Pos(JNaN, JNum(0), JNum(0)),
                        !.rotation = JNum(1), !.isAttacking = "true"],
      [NoPayload EXCEPT !.position = Pos(JNum(0), JInfinity, JNum(0))],
      [NoPayload EXCEPT !.name = << "B" >>, !.swordType = "katana"] }

-----------------------------------------------------------------------------
(* The registry specification: connections come and go, clients join,      *)
(* ask for the existing players and ask for ghosts to be removed.          *)

Next ==
    \/ \E c \in 1..MaxConn : Connection(c) /\ ServerStep /\ UNCHANGED sweepDue
    \/ \E c \in open, d \in JoinInputs : playerJoin(c, d) /\ ServerStep /\ UNCHANGED sweepDue
    \/ \E c \in open : ping(c) /\ ServerStep /\ UNCHANGED sweepDue
    \/ \E c \in open : disconnect(c) /\ ServerStep /\ UNCHANGED sweepDue
    \/ \E c \in open, g \in 0..MaxConn :
          removeGhostPlayer(c, g) /\ ServerStep /\ UNCHANGED sweepDue
    \/ \E c \in open : requestExistingPlayers(c) /\ ServerStep /\ UNCHANGED sweepDue
    \/ Tick(MaxTime)

Spec == Init /\ [][Next]_vars

-----------------------------------------------------------------------------
(* Claims checked under Spec *)

\* the fully registered records of a session
RecordsOfSession(s) ==
    {id \in DOMAIN players : players[id].fullyRegistered /\ players[id].sessionId = s}

\* the records with a name
RecordsNamed(name) == {id \in DOMAIN players : players[id].name = name}

\* C1: once a playerJoin carrying sessionId s has been handled, at most one
\* Registered record has sessionId s, at every later moment.
C1_OneRecordPerSession ==
    \A s \in activeSessions : Cardinality(RecordsOfSession(s)) <= 1

\* C2: when a client that joined with name N and session s joins again on a
\* new connection with the same N and s, the registry holds exactly one record
\* named N after that join, and the existingPlayers snapshot sent in answer
\* holds at most one entry named N.
C2_RejoinLeavesOneRecord ==
    (/\ ev.kind = "playerJoin"
     /\ ev.payload.sessionId # ""
     /\ \E a \in DOMAIN joinLog :
            /\ a < ev.conn
            /\ joinLog[a] = joinLog[ev.conn])
    => /\ Cardinality(RecordsNamed(joinLog[ev.conn].name)) = 1
       /\ \A i \in DOMAIN ev.emits :
             ev.emits[i].type = "existingPlayers" =>
                 Cardinality({id \in DOMAIN ev.emits[i].data :
                     ev.emits[i].data[id].name = joinLog[ev.conn].name}) <= 1

\* the connection ids that were handed out and have been closed
Closed == (1..(nextId - 1)) \ open

\* the last handler announced the departure of id to every open socket
AnnouncedLeft(id) ==
    \E i \in DOMAIN ev.emits :
        /\ ev.emits[i].type = "playerLeft"
        /\ ev.emits[i].id = id
        /\ ev.emits[i].to = open

\* C7 as stated: when the server handles the disconnect of connection c, in
\* that step the record and any potential-ghost entry of c are deleted and a
\* playerLeft for c goes to all clients; c never has a record again.
C7_DisconnectAlwaysAnnounced ==
    /\ ev.kind = "disconnect" =>
          /\ ev.conn \notin DOMAIN players
          /\ ev.conn \notin DOMAIN potentialGhostPlayers
          /\ AnnouncedLeft(ev.conn)
    /\ \A c \in Closed : c \notin DOMAIN players

\* C7 amended: when the server handles the disconnect of a connection c that
\* still has a record, in that step the record and any potential-ghost entry
\* of c are deleted and a playerLeft for c goes to every open socket; when c
\* has no record left, the step sends nothing and leaves the registry and the
\* potential-ghost entries as they are; in both cases no closed connection id
\* ever has a record.
C7_DisconnectRemovesRecord ==
    /\ (ev.kind = "disconnect" /\ ev.before # << >>) =>
          /\ ev.conn \notin DOMAIN players
          /\ ev.conn \notin DOMAIN potentialGhostPlayers
          /\ AnnouncedLeft(ev.conn)
    /\ (ev.kind = "disconnect" /\ ev.before = << >>) =>
          /\ ev.emits = << >>
          /\ DOMAIN players = ev.keys
          /\ potentialGhostPlayers = ev.ghosts
    /\ \A c \in Closed : c \notin DOMAIN players

\* a flagged connection with a record disconnects while another socket is open
C7_Witness ==
    /\ ev.kind = "disconnect"
    /\ ev.before # << >>
    /\ ev.conn \in DOMAIN ev.ghosts
    /\ open # {}

\* C9: handling a playerJoin from a connection leaves exactly one record for
\* that connection; the record is the one a second handling of the same
\* payload yields (lastActivity apart), and a join from an already Registered
\* connection leaves the set of record ids as it was.
C9_JoinIdempotent ==
    ev.kind = "playerJoin" =>
        /\ ev.conn \in DOMAIN players
        /\ players[ev.conn].id = ev.conn
        /\ JoinRecord(players[ev.conn], ev.conn, ev.payload,
                      players[ev.conn].lastActivity) = players[ev.conn]
        /\ (ev.before # << >> /\ ev.before[1].fullyRegistered) =>
               DOMAIN players = ev.keys

\* a Registered connection has joined again with the same payload, position
\* included
C9_Witness ==
    /\ ev.kind = "playerJoin"
    /\ ev.before # << >>
    /\ ev.before[1].fullyRegistered
    /\ ev.payload.position.k = "object"
    /\ [ev.before[1] EXCEPT !.lastActivity = 0]
         = [players[ev.conn] EXCEPT !.lastActivity = 0]

-----------------------------------------------------------------------------
(* The update specification: registered clients send playerUpdate payloads, *)
(* valid and invalid.                                                       *)

UpdateJoinInputs == { Join(<< "R" >>, "s1", Pos(JNum(1), JNum(0), JNum(0)), "") }

NextUpdate ==
    \/ \E c \in 1..MaxConn : Connection(c) /\ ServerStep /\ UNCHANGED sweepDue
    \/ \E c \in open, d \in UpdateJoinInputs :
          playerJoin(c, d) /\ ServerStep /\ UNCHANGED sweepDue
    \/ \E c \in open, d \in UpdateInputs :
          playerUpdate(c, d) /\ ServerStep /\ UNCHANGED sweepDue
    \/ Tick(MaxTime)

SpecUpdate == Init /\ [][NextUpdate]_vars

\* C10: a playerUpdate whose position holds a non-finite or non-numeric
\* coordinate leaves the sender's record unchanged: position, rotation, action
\* flags, weapon, name and lastActivity.
C10_InvalidUpdateDropped ==
    (ev.kind = "playerUpdate" /\ ev.invalid /\ ev.before # << >>) =>
        players[ev.conn] = ev.before[1]

-----------------------------------------------------------------------------
(* The sweep specification: a manager and its peers connect, join under    *)
(* one name, fall silent or drop, while the server's 15 s sweep and the    *)
(* manager's 5 s sweep run as time passes.                                 *)

SweepJoinInputs == { Join(<< "R" >>, "s1", NoPos, "") }

\* the open connections that have not joined, or whose record was removed
Unregistered == {c \in open : c \in DOMAIN players => ~players[c].fullyRegistered}

NextSweep ==
    \/ \E c \in 1..MaxSweepConn : OnGrid /\ connect(c) /\ UNCHANGED sweepDue
    \/ \E c \in 1..MaxSweepConn :
          OnGrid /\ Connection(c) /\ ServerStep /\ UNCHANGED sweepDue
    \/ \E c \in Unregistered, d \in SweepJoinInputs :
          OnGrid /\ playerJoin(c, d) /\ ServerStep /\ UNCHANGED sweepDue
    \/ \E c \in open : OnGrid /\ disconnect(c) /\ ServerStep /\ UNCHANGED sweepDue
    \/ cleanupGhostPlayers /\ ServerStep
    \/ receive
    \/ OnGrid /\ clientDisconnect
    \/ clientCleanupGhostPlayers
    \/ Tick(MaxSweepTime)

SpecSweep == Init /\ [][NextSweep]_vars

-----------------------------------------------------------------------------
(* Claims checked under SpecSweep *)

\* the last step was a run of the server's sweep
ServerSwept == ev.kind = "cleanupGhostPlayers"

\* the last step ran the manager's sweep, from its interval or from playerLeft
ClientSwept == ev.kind \in {"clientCleanupGhostPlayers", "playerLeftCleanup"}

\* how long a shadow has gone without an update
ShadowAge(p) == now - p.lastUpdateTime

\* C3: the client sweep never removes a shadow whose last update is less than
\* 10 s old and the server sweep never removes a record whose last activity is
\* at most 30 s old, whatever the active ids and the flags say.
C3_GraceWindow ==
    /\ ServerSwept =>
          \A id \in ev.removed : InactiveDuration(ev.was[id], now) > inactiveTimeout
    /\ ClientSwept =>
          \A id \in ev.removed : ShadowAge(ev.was[id]) >= recentUpdateWindow

\* the server sweep has run over a record flagged for its name and active in
\* the last 30 s, and has kept it
C3_Witness ==
    /\ ServerSwept
    /\ \E id \in DOMAIN players :
          /\ id \in DOMAIN ev.ghosts
          /\ ev.ghosts[id].reason = "duplicate_name"
          /\ InactiveDuration(players[id], now) <= inactiveTimeout

\* the client sweep has run over a shadow updated in the last 10 s whose id is
\* not among the active ids, and has kept it
C3_WitnessClient ==
    /\ ClientSwept
    /\ \E id \in DOMAIN remotePlayers :
          /\ id \notin activePlayerIds
          /\ ShadowAge(remotePlayers[id]) < recentUpdateWindow

\* C4: after a run of the server sweep no record is left whose last activity
\* is more than 120 s old, and after a run of the client sweep no shadow is
\* left whose last update is more than 120 s old, open connection or active
\* id or not.
C4_HardCeiling ==
    /\ ServerSwept =>
          \A id \in DOMAIN players : InactiveDuration(players[id], now) <= hardCeiling
    /\ ClientSwept =>
          \A id \in DOMAIN remotePlayers :
              ShadowAge(remotePlayers[id]) <= longInactivityTimeout

\* the server sweep has removed the record of an open connection for the
\* ceiling alone: its flag was not 60 s old
C4_Witness ==
    /\ ServerSwept
    /\ \E id \in ev.removed :
          /\ id \in open
          /\ InactiveDuration(ev.was[id], now) > hardCeiling
          /\ id \in DOMAIN ev.ghosts
          /\ now - ev.ghosts[id].firstDetectedAt <= ghostConfirmDelay

\* the client sweep has removed a shadow more than 120 s old whose id is among
\* the active ids
C4_WitnessClient ==
    /\ ClientSwept
    /\ \E id \in ev.removed :
          /\ id \in activePlayerIds
          /\ ShadowAge(ev.was[id]) > longInactivityTimeout

\* a shadow's inactivity lies between 10 s and 120 s
MidAge(p) == ShadowAge(p) >= recentUpdateWindow /\ ShadowAge(p) <= longInactivityTimeout

\* C5: the client sweep removes a shadow whose inactivity lies between 10 s
\* and 120 s if and only if the inactivity exceeds 60 s and the id is absent
\* from the active ids last received.
C5_GhostCandidate ==
    ClientSwept =>
        /\ \A id \in ev.removed :
              MidAge(ev.was[id]) =>
                  /\ ShadowAge(ev.was[id]) > inactivityTimeout
                  /\ id \notin activePlayerIds
        /\ \A id \in DOMAIN remotePlayers :
              MidAge(remotePlayers[id]) =>
                  ~ /\ ShadowAge(remotePlayers[id]) > inactivityTimeout
                    /\ id \notin activePlayerIds

\* the client sweep has removed a shadow between 60 s and 120 s old whose id
\* is absent from the active ids
C5_Witness ==
    /\ ClientSwept
    /\ \E id \in ev.removed :
          /\ MidAge(ev.was[id])
          /\ ShadowAge(ev.was[id]) > inactivityTimeout
          /\ id \notin activePlayerIds

\* the client sweep has kept a shadow more than 60 s old whose id is among the
\* active ids
C5_WitnessKeptActive ==
    /\ ClientSwept
    /\ \E id \in DOMAIN remotePlayers :
          /\ MidAge(remotePlayers[id])
          /\ ShadowAge(remotePlayers[id]) > inactivityTimeout
          /\ id \in activePlayerIds

\* the client sweep has kept a shadow between 10 s and 60 s old whose id is
\* absent from the active ids
C5_WitnessKeptYoung ==
    /\ ClientSwept
    /\ \E id \in DOMAIN remotePlayers :
          /\ MidAge(remotePlayers[id])
          /\ ShadowAge(remotePlayers[id]) <= inactivityTimeout
          /\ id \notin activePlayerIds

\* C6: the server sweep never removes the record of a connection that is
\* still open while its inactivity is below 120 s.
C6_OpenNeverSwept ==
    ServerSwept =>
        \A id \in ev.removed :
            id \in open => InactiveDuration(ev.was[id], now) >= hardCeiling

\* C8: when a playerJoin leaves two records with one name, the record of the
\* other connection is flagged in that step and the joiner's own record is
\* not, and the next run of the sweep removes a record so flagged without
\* waiting for its inactivity.
C8_DuplicateNameSwept ==
    /\ ev.kind = "playerJoin" =>
          /\ \A id \in DOMAIN players \ {ev.conn} :
                players[id].name = players[ev.conn].name =>
                    /\ id \in DOMAIN potentialGhostPlayers
                    /\ potentialGhostPlayers[id].reason = "duplicate_name"
          /\ ev.conn \notin DOMAIN potentialGhostPlayers
    /\ ServerSwept =>
          \A id \in DOMAIN ev.ghosts \cap ev.keys :
              ev.ghosts[id].reason = "duplicate_name" => id \notin DOMAIN players

-----------------------------------------------------------------------------
(* Claims about the registry's records and snapshots, under Spec and        *)
(* SpecUpdate                                                               *)

\* the fully registered connections
Registered == {id \in DOMAIN players : players[id].fullyRegistered}

\* C11: every position stored in a record is made of three finite numbers:
\* a join or respawn that supplies a non-numeric, NaN or infinite coordinate
\* does not put it in the registry.
C11_StoredPositionsFinite ==
    \A id \in DOMAIN players : IsValidPosition(players[id].position)

\* C13: a snapshot sent to a connection holds exactly the Registered
\* records other than the connection's own: no Provisional record and not
\* the requester itself.
C13_SnapshotExcludesRequester ==
    \A i \in 1..Len(ev.emits) :
        ev.emits[i].type = "existingPlayers"
        => \A c \in ev.emits[i].to :
               DOMAIN ev.emits[i].data = Registered \ {c}

\* C12: an accepted playerUpdate from a Provisional connection leaves the
\* connection Registered, so that later snapshots include it.
C12_UpdatePromotes ==
    ( /\ ev.kind = "playerUpdate"
      /\ ev.before # << >>
      /\ ~ev.invalid
      /\ ~ev.raised )
    => /\ ev.conn \in DOMAIN players
       /\ players[ev.conn].fullyRegistered

-----------------------------------------------------------------------------
(* The propagation specification: every way a record enters, changes in or  *)
(* leaves the registry, with the sweep running long enough to remove the    *)
(* record of a silent connection.                                           *)

PropagateUpdateInputs ==
    { [NoPayload EXCEPT !.name = << "B" >>,
                        !.position = Pos(JNum(1), JNum(0), JNum(0))] }

\* the clients connect, join and move in the first instants and then fall
\* silent or leave
MaxRequestTime == 30000

Early == OnGrid /\ now <= MaxRequestTime

NextPropagate ==
    \/ \E c \in 1..MaxSweepConn :
          Early /\ Connection(c) /\ ServerStep /\ UNCHANGED sweepDue
    \/ \E c \in open, d \in SweepJoinInputs :
          Early /\ playerJoin(c, d) /\ ServerStep /\ UNCHANGED sweepDue
    \/ \E c \in open, d \in PropagateUpdateInputs :
          Early /\ playerUpdate(c, d) /\ ServerStep /\ UNCHANGED sweepDue
    \/ \E c \in open : OnGrid /\ disconnect(c) /\ ServerStep /\ UNCHANGED sweepDue
    \/ \E c \in open, g \in 1..MaxSweepConn :
          OnGrid /\ removeGhostPlayer(c, g) /\ ServerStep /\ UNCHANGED sweepDue
    \/ cleanupGhostPlayers /\ ServerStep
    \/ Tick(MaxSweepTime)

SpecPropagate == Init /\ [][NextPropagate]_vars

\* the events of one type among the last step's emits
EmitsOf(type) == {i \in 1..Len(ev.emits) : ev.emits[i].type = type}

\* the last step emitted an event of one of the types about id, carrying
\* the record as it is now, to every open connection but id's
Told(types, id) ==
    \E i \in 1..Len(ev.emits) :
        /\ ev.emits[i].type \in types
        /\ ev.emits[i].id = id
        /\ ev.emits[i].to = open \ {id}
        /\ ev.emits[i].data = [x \in {id} |-> Wire(players[id])]

\* a record without the time of its last activity
Apart(p) == [p EXCEPT !.lastActivity = 0]

C14_WitnessDisconnect ==
    /\ ev.kind = "disconnect"
    /\ DOMAIN ev.registry \ DOMAIN players = {ev.conn}
    /\ open # {}

C14_WitnessRemoveGhost ==
    /\ ev.kind = "removeGhostPlayer"
    /\ DOMAIN ev.registry \ DOMAIN players # {}

-----------------------------------------------------------------------------
(* The combat specification: clients join, attack, report damage and        *)
(* respawn; any event may arrive without a payload.                         *)

MaxHealth == 150

CombatJoinInputs == { Join(<< "R" >>, "s1", NoPos, ""), Missing }

CombatUpdateInputs == { Missing }

AttackInputs ==
    { Missing,
      [NoPayload EXCEPT !.swordType = "katana", !.id = 2, !.damage = JNum(99)] }

DamageInputs ==
    { Missing } \cup
    { [NoPayload EXCEPT !.targetId = t, !.damage = dmg] :
        t \in 1..MaxConn, dmg \in {JNum(150), JNum(-50), JString} }

RespawnInputs ==
    { Missing, NoPayload,
      [NoPayload EXCEPT !.position = Pos(JNum(1), JNum(0), JNum(0))],
      [NoPayload EXCEPT !.position = Pos(JNaN, JNum(0), JNum(0))] }

\* the runs explored keep every numeric health at or below MaxHealth
HealthCapped(ps) ==
    \A id \in DOMAIN ps : ps[id].health[1] = "number" => ps[id].health[2] <= MaxHealth

NextCombat ==
    \/ \E c \in 1..MaxConn : Connection(c) /\ ServerStep /\ UNCHANGED sweepDue
    \/ \E c \in open, d \in CombatJoinInputs :
          playerJoin(c, d) /\ ServerStep /\ UNCHANGED sweepDue
    \/ \E c \in open, d \in CombatUpdateInputs :
          playerUpdate(c, d) /\ ServerStep /\ UNCHANGED sweepDue
    \/ \E c \in open, d \in AttackInputs :
          playerAttack(c, d) /\ ServerStep /\ UNCHANGED sweepDue
    \/ \E c \in open, d \in DamageInputs :
          playerDamaged(c, d) /\ HealthCapped(players') /\ ServerStep /\ UNCHANGED sweepDue
    \/ \E c \in open, d \in RespawnInputs :
          playerRespawn(c, d) /\ ServerStep /\ UNCHANGED sweepDue
    \/ \E c \in open : removeGhostPlayer(c, 0) /\ ServerStep /\ UNCHANGED sweepDue

SpecCombat == Init /\ [][NextCombat]_vars

-----------------------------------------------------------------------------
(* Claims checked under SpecCombat *)

\* C15: in every reachable state each record's health is an integer
\* between 0 and 100, whatever damage amounts the clients send.
C15_HealthInRange ==
    \A id \in DOMAIN players :
        /\ players[id].health[1] = "number"
        /\ players[id].health[2] \in 0..100

\* C16: a playerDamaged for a target whose health is already 0 emits no
\* further playerDefeated.
C16_DefeatedOnce ==
    ( /\ ev.kind = "playerDamaged"
      /\ ev.before # << >>
      /\ ev.before[1].health = JNum(0) )
    => EmitsOf("playerDefeated") = {}

\* C17: a playerRespawn from a connection that has a record leaves the
\* record with health 100 and, when the payload supplies a position, that
\* position, and emits one playerRespawned with the connection's id and
\* the record's position to all connections; from a connection without a
\* record it changes nothing and emits nothing.
C17_RespawnResets ==
    ev.kind = "playerRespawn"
    => IF ev.before # << >>
       THEN /\ ev.conn \in DOMAIN players
            /\ players[ev.conn].health = JNum(100)
            /\ ev.payload.position.k = "object"
                   => players[ev.conn].position = ev.payload.position
            /\ ev.emits = << Carrying("playerRespawned", open, ev.conn,
                                      [position |-> players[ev.conn].position]) >>
       ELSE /\ ev.emits = << >>
            /\ DOMAIN players = ev.keys

\* the record the sender of the last event had, as playerAttack reads it
SenderBefore == IF ev.before = << >> THEN UndefinedPlayer ELSE ev.before[1]

\* C18: every playerAttack is answered by one playerAttacked whose attacker
\* id is the sending socket's id, sent to every open connection but the
\* sender; the payload's id field has no influence on it.
C18_AttackerIsSender ==
    ev.kind = "playerAttack"
    => /\ Len(ev.emits) = 1
       /\ ev.emits[1].type = "playerAttacked"
       /\ ev.emits[1].id = ev.conn
       /\ DOMAIN ev.emits[1].data = {ev.conn}
       /\ ev.emits[1].data[ev.conn].id = ev.conn
       /\ ev.emits[1].to = open \ {ev.conn}
       /\ \A i \in 0..MaxConn :
              ev.emits = AttackEmits(ev.conn, [ev.payload EXCEPT !.id = i],
                                     SenderBefore, open)

\* a payload names another connection as the attacker and someone is
\* there to receive the broadcast
C18_Witness ==
    /\ ev.kind = "playerAttack"
    /\ ev.payload.isObject
    /\ ev.payload.id \notin {0, ev.conn}
    /\ open \ {ev.conn} # {}

\* C19: whatever the payload, missing ones included, a handler runs to
\* completion: no exception is raised, the server keeps running and every
\* other connection keeps its record.
C19_HandlersComplete ==
    ev.kind \in {"playerJoin", "playerUpdate", "playerAttack", "playerDamaged",
                 "playerRespawn", "removeGhostPlayer"}
    => /\ ~ev.raised
       /\ up
       /\ ~ev.payload.isObject
              => \A id \in ev.keys \ {ev.conn} : id \in DOMAIN players

-----------------------------------------------------------------------------
(* The client specification: the manager is connected and the events about  *)
(* one remote player reach its socket in any order, with any timestamps.    *)

\* the remote player the events are about: never the manager's own id
RemoteId == MaxConn + 1

\* The updates are stamped by a server whose clock is ahead of the manager's:
\* the latency the handler measures for them is negative and gives no sample.

RemoteWire(position) ==
    [name |-> << "R" >>, characterType |-> "knight", position |-> position]

ClientInputs ==
    { Msg("playerJoined", 1..MaxConn, RemoteId, {}, [x \in {RemoteId} |-> RemoteWire(Origin)]),
      Plain("playerLeft", 1..MaxConn, RemoteId) }
    \cup
    { Stamped(Msg("playerUpdated", 1..MaxConn, RemoteId, {},
                  [x \in {RemoteId} |-> RemoteWire(position)]), timestamp) :
        position \in {Pos(JNum(1), JNum(0), JNum(0)), Pos(JNum(2), JNum(0), JNum(0))},
        timestamp \in {MaxTime + 80, MaxTime + 100} }

NextClient ==
    \/ \E c \in 1..MaxConn : connect(c) /\ UNCHANGED sweepDue
    \/ receive
    \/ \E m \in ClientInputs : arrival(m)
    \/ clientDisconnect
    \/ clientCleanupGhostPlayers
    \/ Tick(MaxTime)

SpecClient == Init /\ [][NextClient]_vars

\* the manager has just handled a playerUpdated for a shadow it had, and
\* the event's timestamp is older than one it handled before for that shadow
OlderUpdateHandled ==
    /\ ev.kind = "receive"
    /\ ev.emits[1].type = "playerUpdated"
    /\ ev.before # << >>
    /\ ev.emits[1].id \in DOMAIN newest
    /\ ev.emits[1].timestamp # 0
    /\ ev.emits[1].timestamp < newest[ev.emits[1].id]

\* C20: an update that carries an older timestamp than one already handled
\* for the same remote player is discarded: the shadow's targetPosition and
\* lastUpdateTime stay as they were.
C20_OutOfOrderDiscarded ==
    OlderUpdateHandled
    => /\ ev.emits[1].id \in DOMAIN remotePlayers
       /\ remotePlayers[ev.emits[1].id].targetPosition = ev.before[1].targetPosition
       /\ remotePlayers[ev.emits[1].id].lastUpdateTime = ev.before[1].lastUpdateTime

-----------------------------------------------------------------------------
(* Rendering of a remote player: the manager is connected, the events about *)
(* one remote player reach its socket, and frames are drawn from the        *)
(* instant FirstFrame on, around the first assessment of the network        *)
(* quality.  Only the first update the manager handles carries a timestamp, *)
(* so that the assessment has one latency sample to classify.               *)

FirstFrame == 19950
MaxRenderTime == 20150
MaxDenominator == 200

\* the times between two frames
FrameTimes == {50, 99}

RenderTargets ==
    { Pos(JNum(5), JNum(0), JNum(0)), Pos(JNum(4), JNum(4), JNum(0)),
      Pos(JNum(6), JNum(0), JNum(0)) }

RenderLatencies == {30, 250}

RenderStamps ==
    IF manager.latencies = << >>
    THEN {ManagerClock(now) - latency : latency \in RenderLatencies}
    ELSE {0}

RenderInputs ==
    { Msg("playerJoined", 1..MaxConn, RemoteId, {}, [x \in {RemoteId} |-> RemoteWire(position)]) :
        position \in {Origin, Pos(JNum(4), JNum(4), JNum(0))} }
    \cup
    { Stamped(Msg("playerUpdated", 1..MaxConn, RemoteId, {},
                  [x \in {RemoteId} |-> RemoteWire(position)]), timestamp) :
        position \in RenderTargets, timestamp \in RenderStamps }

\* the instants the next frame may be drawn at
FrameInstants ==
    { t \in {FirstFrame} \cup {now + d : d \in FrameTimes} \cup manager.assessDue :
        FirstFrame <= t /\ t <= MaxRenderTime }

NextRender ==
    \/ OnGrid /\ connect(1) /\ UNCHANGED sweepDue
    \/ receive
    \/ \E m \in RenderInputs : arrival(m)
    \/ \E t \in FrameInstants :
          /\ update(t)
          /\ \A id \in DOMAIN remotePlayers' :
                Denominator(remotePlayers'[id].mesh) <= MaxDenominator
    \/ assessNetworkQuality
    \/ clientCleanupGhostPlayers

SpecRender == Init /\ [][NextRender]_vars

\* the manager has just handled a playerUpdated with a valid position for a
\* shadow it had
PositionUpdateHandled ==
    /\ ev.kind = "receive"
    /\ ev.emits[1].type = "playerUpdated"
    /\ ev.before # << >>
    /\ ev.emits[1].id \in DOMAIN remotePlayers
    /\ IsValidPosition(ev.emits[1].data[ev.emits[1].id].position)

\* the position the update handled last carries
UpdateTarget == MeshPosition(ev.emits[1].data[ev.emits[1].id].position)

\* the manager has just handed a valid position for a shadow it had to
\* updateRemotePlayer: from a playerUpdated (797) or a playerJoined (716)
TargetUpdateHandled ==
    /\ ev.kind = "receive"
    /\ ev.emits[1].type \in {"playerUpdated", "playerJoined"}
    /\ ev.before # << >>
    /\ ev.emits[1].id \in DOMAIN remotePlayers
    /\ IsValidPosition(ev.emits[1].data[ev.emits[1].id].position)

\* C21: an update whose position is farther than the snap threshold (5 units,
\* straight-line distance over the three axes) from the rendered position
\* leaves the rendered position equal to the new target at once.
C21_SnapBeyondThreshold ==
    (TargetUpdateHandled
     /\ FartherThan(ev.before[1].mesh, UpdateTarget, SnapDistance))
    => remotePlayers[ev.emits[1].id].mesh = UpdateTarget

\* the target of the shadow was moved by less than the snap threshold
SmallTargetMove ==
    /\ PositionUpdateHandled
    /\ ev.before[1].targetPosition.k = "object"
    /\ MeshPosition(ev.before[1].targetPosition) # UpdateTarget
    /\ CloserThan(MeshPosition(ev.before[1].targetPosition), UpdateTarget, SnapDistance)

\* C22: a playerUpdated that moves the target of a shadow by less than the
\* snap threshold is not applied to the rendered position on arrival.
C22_SmallTargetMoveNotSnapped ==
    SmallTargetMove => remotePlayers[ev.emits[1].id].mesh # UpdateTarget

\* the shadows a frame has just handled with the factor 1: the whole window
\* has passed since their last position update
Settled ==
    IF ev.kind = "update"
    THEN { id \in DOMAIN remotePlayers :
             /\ remotePlayers[id].targetPosition.k = "object"
             /\ now - remotePlayers[id].lastPositionUpdateTime
                    >= InterpolationWindow(manager) }
    ELSE {}

\* C23: a tick at or after the end of the interpolation window, whatever the
\* window is, leaves the rendered position exactly equal to the target.
C23_FinalSnapExact ==
    \A id \in Settled :
        remotePlayers[id].mesh = MeshPosition(remotePlayers[id].targetPosition)

\* the shadows a frame has just interpolated
Interpolated ==
    IF ev.kind = "update"
    THEN { id \in DOMAIN remotePlayers : remotePlayers[id].targetPosition.k = "object" }
    ELSE {}

\* a <= b
RLessEq(a, b) == ~RLess(b, a)

\* C24: on each tick the distance of the rendered position to the target does
\* not grow on any axis, and the rendered coordinate never passes beyond the
\* target's: it stays between where it was and the target, also when the
\* interpolation window has changed since the tick before.
C24_MonotoneConvergence ==
    \A id \in Interpolated : \A a \in Axes :
        LET old == ev.before[1][id].mesh[a]
            new == remotePlayers[id].mesh[a]
            target == MeshPosition(remotePlayers[id].targetPosition)[a]
        IN /\ RLessEq(RAbs(RSub(new, target)), RAbs(RSub(old, target)))
           /\ \/ RLessEq(old, new) /\ RLessEq(new, target)
              \/ RLessEq(target, new) /\ RLessEq(new, old)

-----------------------------------------------------------------------------
(* The latency buffer: samples of every kind are handed to _trackLatency.   *)
(* The first FreeSamples valid samples are any of a few values; each later  *)
(* one is SampleStep more than the one before it, modulo SampleRange, so    *)
(* that the buffer fills and turns over with samples that can be told apart.*)

FreeSamples == 3
SampleStep == 7
SampleRange == 300

InvalidSamples == {JNum(-1), JNaN, JString, JUndefined, NegInfinity}

LatencySamples ==
    InvalidSamples
    \cup (IF Len(manager.latencies) < FreeSamples
          THEN {JNum(0), JNum(120), JInfinity}
          ELSE {JNum((manager.latencies[Len(manager.latencies)][2] + SampleStep)
                     % SampleRange)})

NextLatency ==
    \/ connect(1) /\ UNCHANGED sweepDue
    \/ receive
    \/ \E latency \in LatencySamples : trackLatency(latency)

SpecLatency == Init /\ [][NextLatency]_vars

\* the sample is a number that is not negative
ValidSample(latency) ==
    \/ latency[1] = "number" /\ latency[2] >= 0
    \/ latency = JInfinity

\* the last n elements of a sequence
LastN(l, n) == IF Len(l) > n THEN SubSeq(l, Len(l) - n + 1, Len(l)) ELSE l

\* C25: the latency buffer holds at most 50 samples, the most recent valid
\* ones in the order they arrived; a sample that is negative, NaN or no number
\* leaves the buffer as it was.
C25_LatencyBuffer ==
    /\ Len(manager.latencies) <= 50
    /\ \A i \in 1..Len(manager.latencies) : ValidSample(manager.latencies[i])
    /\ ev.kind = "trackLatency"
       => manager.latencies =
            IF ValidSample(ev.before[1].sample)
            THEN LastN(Append(ev.before[1].latencies, ev.before[1].sample), 50)
            ELSE ev.before[1].latencies

\* a valid sample has reached a full buffer and has pushed the oldest one out
C25_Witness ==
    /\ ev.kind = "trackLatency"
    /\ Len(ev.before[1].latencies) = 50
    /\ ValidSample(ev.before[1].sample)
    /\ Len(manager.latencies) = 50
    /\ manager.latencies[50] = ev.before[1].sample
    /\ manager.latencies[1] = ev.before[1].latencies[2]
    /\ manager.latencies[1] # ev.before[1].latencies[1]

\* an invalid sample has been handed in and has left a buffer with samples
\* as it was
C25_WitnessSkipped ==
    /\ ev.kind = "trackLatency"
    /\ ~ValidSample(ev.before[1].sample)
    /\ ev.before[1].latencies # << >>
    /\ manager.latencies = ev.before[1].latencies

-----------------------------------------------------------------------------
(* The network monitor: the manager connects, a few latency samples reach   *)
(* _trackLatency, a frame is drawn at the instant the assessment is due,    *)
(* the assessment runs, and the manager disconnects and connects again.     *)

MaxAssessed == 3

MonitorSamples ==
    IF Len(manager.latencies) < MaxAssessed
    THEN {JNum(0), JNum(45), JNum(60), JNum(90), JNum(150), JNum(250), JInfinity}
    ELSE {}

NextMonitor ==
    \/ \E c \in 1..MaxConn : connect(c) /\ UNCHANGED sweepDue
    \/ receive
    \/ clientDisconnect
    \/ \E latency \in MonitorSamples : trackLatency(latency)
    \/ \E t \in manager.assessDue : t <= MaxTime /\ update(t)
    \/ assessNetworkQuality

SpecMonitor == Init /\ [][NextMonitor]_vars

\* the mean of the samples is less than bound
MeanBelow(l, bound) ==
    /\ JInfinity \notin {l[i] : i \in 1..Len(l)}
    /\ SumOf(l) < bound * Len(l)

\* the mean absolute difference of consecutive samples, 0 for one sample, is
\* less than bound
MeanStepBelow(l, bound) ==
    \/ Len(l) = 1
    \/ /\ JInfinity \notin {l[i] : i \in 1..Len(l)}
       /\ JitterSum(l) < bound * (Len(l) - 1)

\* the quality level and the window the claim gives for the samples l
Claimed(l) ==
    IF MeanBelow(l, 50) /\ MeanStepBelow(l, 10) THEN << "excellent", 50 >>
    ELSE IF MeanBelow(l, 100) /\ MeanStepBelow(l, 20) THEN << "good", 100 >>
    ELSE IF MeanBelow(l, 200) /\ MeanStepBelow(l, 50) THEN << "fair", 150 >>
    ELSE << "poor", 200 >>

\* C26: an assessment with at least one sample sets the quality level to
\* excellent when the average latency is below 50 and the jitter below 10,
\* otherwise good when they are below 100 and 20, otherwise fair when they are
\* below 200 and 50, otherwise poor, the jitter being the mean absolute
\* difference of consecutive samples; and it sets the interpolation window
\* to 50, 100, 150 or 200 ms for these levels.
C26_Assessment ==
    (ev.kind = "assessNetworkQuality" /\ Len(ev.before[1].latencies) >= 1)
    => /\ manager.qualityLevel = Claimed(ev.before[1].latencies)[1]
       /\ manager._interpolationTime = Claimed(ev.before[1].latencies)[2]
       /\ InterpolationWindow(manager) = Claimed(ev.before[1].latencies)[2]

\* an assessment has rated samples with an average below 50 as fair because
\* of their jitter
C26_Witness ==
    /\ ev.kind = "assessNetworkQuality"
    /\ Len(ev.before[1].latencies) >= 2
    /\ MeanBelow(ev.before[1].latencies, 50)
    /\ manager.qualityLevel = "fair"
    /\ manager._interpolationTime = 150

\* C27: whenever the quality level is 'unknown', at start-up and after the
\* reset of a connection or reconnection, the interpolation window the tick
\* uses is the 100 ms default.
C27_UnknownUsesDefault ==
    manager.qualityLevel = "unknown" => InterpolationWindow(manager) = 100

-----------------------------------------------------------------------------
(* The session: the manager's socket connects, is disconnected for one      *)
(* reason or another and connects again, while the heartbeat and the        *)
(* timeouts of reconnect() and registerPlayer run when they are due.        *)

MaxSessionConn == 2
MaxSessionTime == 27000

DisconnectReasons == {"io server disconnect", "transport close", "ping timeout"}

NextSession ==
    \/ \E c \in 1..MaxSessionConn : connect(c) /\ UNCHANGED sweepDue
    \/ receive
    \/ \E reason \in DisconnectReasons : socketDisconnect(reason)
    \/ manager.reconnectAttempts <= maxReconnectAttempts /\ reconnect_error
    \/ heartbeat
    \/ pingResponse /\ UNCHANGED sweepDue
    \/ \E timer \in manager.timers : timeout(timer)
    \/ wait(MaxSessionTime)

SpecSession == Init /\ [][NextSession]_vars

\* a heartbeat check has just run, the third in a row at least for which
\* more than responseTimeout had passed since the last response
ThirdSilentCheck ==
    /\ ev.kind = "heartbeat"
    /\ now - ev.before[1].lastServerResponse > responseTimeout + 2 * heartbeatPeriod

\* the heartbeat runs whenever the manager is connected
HeartbeatWhileConnected == connected => manager.heartbeatDue # 0

\* the third silent check ends the connection and calls reconnect()
SilenceForcesReconnect ==
    ThirdSilentCheck
    => /\ ~connected
       /\ manager.heartbeatDue = 0
       /\ manager.reconnectAttempts = ev.before[1].reconnectAttempts + 1

\* C28: a heartbeat probe runs in every Connected period, the first
\* connection and every reconnection alike, and three consecutive checks
\* without a response for more than 5 s force a reconnection.
C28_HeartbeatEveryConnection ==
    /\ HeartbeatWhileConnected
    /\ SilenceForcesReconnect

\* the manager's socket has just connected
JustConnected == ev.kind = "connection" /\ ev.conn = localId /\ connected

\* C30: every transition to Connected, the player name being known, emits
\* playerJoin with the player's name, character type and sword type and with
\* the session id the manager has had since it was built, the same as before
\* the disconnect, and emits requestExistingPlayers.
C30_RegistersOnConnect ==
    JustConnected
    => /\ \E i \in 1..Len(manager.sent) :
            /\ manager.sent[i].type = "playerJoin"
            /\ manager.sent[i].data.name = LocalName
            /\ manager.sent[i].data.characterType = LocalCharacter
            /\ manager.sent[i].data.swordType = LocalSword
            /\ manager.sent[i].data.sessionId = LocalSession
       /\ \E i \in 1..Len(manager.sent) :
            manager.sent[i].type = "requestExistingPlayers"

\* the socket has connected again after a disconnect that called reconnect()
C30_Witness ==
    /\ JustConnected
    /\ localId > 1
    /\ manager.reconnectAttempts >= 1
    /\ \E i \in 1..Len(manager.sent) :
          /\ manager.sent[i].type = "playerJoin"
          /\ manager.sent[i].data.sessionId = LocalSession

-----------------------------------------------------------------------------
(* Repeated reconnection: the socket is disconnected by the server or by    *)
(* the transport again and again, and connects again once the timeouts of   *)
(* the last reconnect() have run.                                           *)

MaxReconnectConn == 7
MaxReconnectTime == 24000

NextReconnect ==
    \/ \E c \in 1..MaxReconnectConn :
          manager.timers = {} /\ connect(c) /\ UNCHANGED sweepDue
    \/ receive
    \/ \E reason \in {"io server disconnect", "transport close"} :
          socketDisconnect(reason)
    \/ manager.reconnectAttempts <= maxReconnectAttempts /\ reconnect_error
    \/ heartbeat
    \/ \E timer \in manager.timers : timeout(timer)
    \/ wait(MaxReconnectTime)

SpecReconnect == Init /\ [][NextReconnect]_vars

\* C29: reconnect() schedules an attempt only while the cumulative counter
\* of attempts, once incremented, is at most maxReconnectAttempts (5); the
\* counter never decreases and is never reset, so at most 5 attempts are ever
\* scheduled, and from then on reconnect() gives up without scheduling one.
C29_ReconnectBounded ==
    [][/\ manager'.reconnectAttempts >= manager.reconnectAttempts
       /\ manager'.scheduledAttempts >= manager.scheduledAttempts
       /\ manager'.scheduledAttempts <= 5
       /\ manager'.scheduledAttempts > manager.scheduledAttempts
          => /\ manager'.reconnectAttempts = manager.reconnectAttempts + 1
             /\ manager'.reconnectAttempts <= 5
       /\ manager.reconnectAttempts >= 5
          => manager'.scheduledAttempts = manager.scheduledAttempts]_vars

\* the socket was disconnected by the server after five scheduled attempts,
\* and reconnect() has given up
C29_Witness ==
    /\ ev.kind = "clientDisconnect"
    /\ ~connected
    /\ ev.before[1].scheduledAttempts = 5
    /\ ev.before[1].reconnectAttempts = 5
    /\ ~ev.before[1]._isReconnecting
    /\ manager.reconnectAttempts = 6
    /\ manager.scheduledAttempts = 5
    /\ ~manager._isReconnecting
    /\ \A timer \in manager.timers : timer.kind = "registered"

-----------------------------------------------------------------------------
(* One socket, one reconnection under way, under SpecSession               *)

\* the setTimeout callbacks of reconnect() that have not run yet
ReconnectTimers(m) == {timer \in m.timers : timer.kind \in {"standard", "transport", "refresh"}}

\* the last step was a 'disconnect' event for a reason the handler calls
\* reconnect() for, while a timeout of an earlier reconnect() had not run yet
ReconnectWhilePending ==
    /\ ev.kind = "clientDisconnect"
    /\ ev.before[2].reason \in {"io server disconnect", "transport close"}
    /\ ReconnectTimers(ev.before[1]) # {}

\* C31: the manager never makes a second socket, never has more than one
\* reconnection attempt pending, and a reconnect() called while an attempt is
\* pending changes nothing: the counter, the timers and the flags of the
\* reconnection stay as they were.
C31_OneSocketOneAttempt ==
    /\ manager.sockets <= 1
    /\ Cardinality(ReconnectTimers(manager)) <= 1
    /\ ReconnectWhilePending
       => /\ manager.reconnectAttempts = ev.before[1].reconnectAttempts
          /\ manager.scheduledAttempts = ev.before[1].scheduledAttempts
          /\ manager.timers = ev.before[1].timers
          /\ manager._isReconnecting = ev.before[1]._isReconnecting
          /\ manager.isReconnecting = ev.before[1].isReconnecting
          /\ manager.previousSessionId = ev.before[1].previousSessionId

\* the socket, connected for the second time at least, was disconnected by
\* the server while the timeout of an earlier reconnect() had not run yet
C31_Witness ==
    /\ ReconnectWhilePending
    /\ manager.sockets = 1
    /\ localId > 1
    /\ Cardinality(ReconnectTimers(manager)) = 1

-----------------------------------------------------------------------------
(* Resolution of a reconnection.  The socket connects only while it is      *)
(* trying to: after io() made it, after socket.connect(), or when the       *)
(* socket.io client reconnects by itself.  Timers run when they are due:    *)
(* the event loop leaves no due callback waiting for ever.  No disconnect   *)
(* happens so late that the timeouts of its reconnect() fall beyond the     *)
(* horizon.                                                                 *)

MaxResolveConn == 3
MaxResolveTime == 22000

\* the longest time from reconnect() to the last of its timeouts
reconnectSpan == transportDelay + refreshDelay

NextResolve ==
    \/ \E c \in 1..MaxResolveConn :
          /\ cleanupDue = 0 \/ manager.connecting
          /\ connect(c) /\ UNCHANGED sweepDue
    \/ receive
    \/ \E reason \in DisconnectReasons :
          now + reconnectSpan <= MaxResolveTime /\ socketDisconnect(reason)
    \/ heartbeat
    \/ \E timer \in manager.timers : timeout(timer)
    \/ wait(MaxResolveTime)

SpecResolve ==
    /\ Init /\ [][NextResolve]_vars
    /\ WF_vars(receive)
    /\ WF_vars(heartbeat)
    /\ WF_vars(\E timer \in manager.timers : timeout(timer))
    /\ WF_vars(wait(MaxResolveTime))

\* C32: every reconnect() that schedules an attempt is followed, sooner or
\* later, by a connection attempt on the socket (socket.connect() or a new
\* socket) or by the socket being connected, whatever the reason of the
\* disconnect was: the session does not stay in Reconnecting for ever.
C32_ReconnectResolves == manager.owed ~> ~manager.owed

\* the same for the reconnections that follow a disconnect by the server
ServerDisconnectResolves ==
    (manager.owed /\ \E timer \in manager.timers : timer.kind = "standard")
        ~> ~manager.owed

-----------------------------------------------------------------------------
(* The sweeps run twice, under SpecSweep *)

\* C33: a second run of the server sweep at the clock value of the first
\* removes no record, leaves the potential-ghost entries as the first run
\* left them and emits no playerLeft; a second run of the client sweep at
\* the clock value of the first removes no shadow.
C33_SweepIdempotent ==
    /\ ServerSwept =>
          /\ SweepRemoved(players, potentialGhostPlayers, now) = {}
          /\ Drop(players, SweepRemoved(players, potentialGhostPlayers, now)) = players
          /\ SweepGhosts(players, potentialGhostPlayers, now) = potentialGhostPlayers
          /\ SweepLeftEmits(KeysInOrder(SweepRemoved(players, potentialGhostPlayers, now)),
                            open) = << >>
    /\ ClientSwept =>
          /\ GhostsOf(remotePlayers, activePlayerIds, now) = {}
          /\ Drop(remotePlayers, GhostsOf(remotePlayers, activePlayerIds, now))
                = remotePlayers

\* the server sweep has removed a record and has kept another one that it
\* has flagged in this run
C33_Witness ==
    /\ ServerSwept
    /\ ev.removed # {}
    /\ \E id \in DOMAIN players :
          /\ id \in DOMAIN potentialGhostPlayers
          /\ id \notin DOMAIN ev.ghosts
          /\ potentialGhostPlayers[id].firstDetectedAt = now

\* the client sweep has removed a shadow from its interval
C33_WitnessClient ==
    /\ ev.kind = "clientCleanupGhostPlayers"
    /\ ev.removed # {}
    /\ GhostsOf(remotePlayers, activePlayerIds, now) = {}

-----------------------------------------------------------------------------
(* The health a healthUpdate carries, under SpecCombat *)

\* C34: every healthUpdate carries the target's health as the record holds
\* it when the playerDamaged handler ends: a number between 0 and 100, the
\* damage applied and the result clamped.
C34_HealthUpdateStored ==
    (ev.kind = "playerDamaged" /\ ~ev.raised)
    => \A i \in EmitsOf("healthUpdate") :
           LET id == ev.emits[i].id
               h == ev.emits[i].data[id].health
           IN /\ h[1] = "number"
              /\ h[2] \in 0..100
              /\ id \in DOMAIN players
              /\ h = players[id].health

-----------------------------------------------------------------------------
(* Removal on request and the potential-ghost entries, under Spec *)

\* C35: a removeGhostPlayer request deletes a record only when the
\* connection of that record is no longer open: no client has the record of
\* a live connection removed, another player's or its own.
C35_RemovesOnlyClosed ==
    ev.kind = "removeGhostPlayer" => \A id \in ev.removed : id \notin open

\* C40: every id with a potential-ghost entry has a record: each step that
\* deletes a record (disconnect, sweep, removeGhostPlayer) deletes the id's
\* entry as well.
C40_GhostsHaveRecords ==
    DOMAIN potentialGhostPlayers \subseteq DOMAIN players

-----------------------------------------------------------------------------
(* Shadows under free delivery: the manager connects once and stays         *)
(* connected; other clients connect, join, move and leave; the server's     *)
(* interval sends its forced updates.  The events the server has sent to    *)
(* the manager are in flight until the manager handles them, in any order.  *)
(* The horizon ends before the sweep can remove a record, so a playerLeft   *)
(* is sent only for a connection that has closed.                           *)

MaxShadowConn == 2
MaxShadowTime == 25000
MaxInFlight == 2

ShadowJoinInputs == { Join(<< "R" >>, "s1", Pos(JNum(1), JNum(0), JNum(0)), "") }

ShadowUpdateInputs ==
    { [NoPayload EXCEPT !.position = Pos(JNum(2), JNum(0), JNum(0))] }

\* a server handler runs while events it sent before may still be in flight
Send ==
    /\ up
    /\ Deliver
    /\ Len(inbox') <= MaxInFlight
    /\ UNCHANGED << now, localId, connected, remotePlayers, activePlayerIds, cleanupDue,
                    manager, newest >>

\* the manager handles one of the events in flight
deliver(i) ==
    /\ i \in 1..Len(inbox)
    /\ inbox' = SubSeq(inbox, 1, i - 1) \o SubSeq(inbox, i + 1, Len(inbox))
    /\ Handle(inbox[i])

NextShadow ==
    \/ \E c \in 1..MaxShadowConn : connect(c) /\ UNCHANGED sweepDue
    \/ \E c \in 1..MaxShadowConn : Connection(c) /\ Send /\ UNCHANGED sweepDue
    \/ \E c \in Unregistered, d \in ShadowJoinInputs :
          playerJoin(c, d) /\ Send /\ UNCHANGED sweepDue
    \/ \E c \in open, d \in ShadowUpdateInputs :
          playerUpdate(c, d) /\ Send /\ UNCHANGED sweepDue
    \/ \E c \in open \ {localId} : disconnect(c) /\ Send /\ UNCHANGED sweepDue
    \/ cleanupGhostPlayers /\ Send
    \/ \E i \in 1..MaxInFlight : deliver(i)
    \/ clientCleanupGhostPlayers
    \/ Tick(MaxShadowTime)

SpecShadow == Init /\ [][NextShadow]_vars

\* C36: the manager has no shadow for a player whose record on the server is
\* still provisional (fullyRegistered false).
C36_NoProvisionalShadow ==
    \A id \in DOMAIN remotePlayers :
        id \in DOMAIN players => players[id].fullyRegistered

\* the playerLeft of connection x has been handled by the manager
LeftHandled(x) ==
    /\ ev.kind \in {"receive", "playerLeftCleanup"}
    /\ ev.emits[1].type = "playerLeft"
    /\ ev.emits[1].id = x

\* C37: once the manager has handled playerLeft for a connection that is
\* closed, no event sent before the removal and delivered after it gives the
\* manager a shadow for that connection again, whatever the order of
\* delivery: in particular the step that follows the handling of playerLeft
\* creates none.
C37_NoResurrection ==
    [][\A x \in 1..MaxShadowConn :
          LeftHandled(x) /\ x \notin open => x \notin DOMAIN remotePlayers']_vars

\* C39: the manager's remotePlayers never holds the manager's own
\* connection id.
C39_NoOwnShadow == localId \notin DOMAIN remotePlayers

\* the manager has handled a list of existing players that names the manager
\* itself beside another player, and has a shadow
C39_Witness ==
    /\ ev.kind = "receive"
    /\ ev.emits[1].type = "existingPlayers"
    /\ localId \in DOMAIN ev.emits[1].data
    /\ DOMAIN ev.emits[1].data # {localId}
    /\ remotePlayers # EmptyMap

-----------------------------------------------------------------------------
(* Agreement on positions: the clients connect, join and move at the first  *)
(* instant and keep their connections; afterwards the server's interval     *)
(* runs its sweeps and forced updates, the manager handles what it is sent  *)
(* and draws frames.  Every handler that is due runs, and frames keep being *)
(* drawn: past the horizon a frame is drawn only while a mesh is not where  *)
(* the shadow's stored position or its target is.  A frame within the       *)
(* interpolation window of an update may be drawn or not.                   *)

MaxAgreeConn == 2
MaxAgreeTime == 45000
LastMoveTime == 15000

\* the time to a frame that finds every interpolation window over: the
\* longest window _adjustInterpolationSettings sets (3698)
SettleGap == 200

AgreeJoinInputs ==
    { Join(<< "R" >>, "s1", position, "") :
        position \in {Pos(JNum(1), JNum(0), JNum(0)), Pos(JNum(2), JNum(0), JNum(0))} }

AgreeUpdateInputs ==
    { [NoPayload EXCEPT !.position = Pos(JNum(2), JNum(0), JNum(0))] }

\* the request moves the player of connection c forward along x: each player
\* moves a few times and then stays where it is
Moves(c, d) == c \in DOMAIN players => players[c].position.x[2] < d.position.x[2]

Moving == OnGrid /\ now <= LastMoveTime

\* a mesh is not where the stored position of its shadow is, or is off the
\* target of the interpolation
Unsettled ==
    \E id \in DOMAIN remotePlayers :
        \/ Mismatch(remotePlayers[id].mesh, remotePlayers[id].position)
        \/ /\ remotePlayers[id].targetPosition.k = "object"
           /\ OffTarget(remotePlayers[id].mesh,
                        MeshPosition(remotePlayers[id].targetPosition))

\* the instants a frame may be drawn at while a shadow is on its way: 99 ms
\* after the shadow's last position update
BlendFrames ==
    { t \in {remotePlayers[id].lastPositionUpdateTime + 99 : id \in DOMAIN remotePlayers} :
        now < t /\ t <= MaxAgreeTime }

\* the instants a frame is drawn at in any case: none of them is within an
\* interpolation window of a position update
SettleFrames ==
    { t \in {NextInstant, cleanupDue} \cup manager.assessDue :
        now < t /\ t <= MaxAgreeTime }
    \cup (IF Unsettled THEN {now + SettleGap} ELSE {})

frame(t) ==
    /\ update(t)
    /\ \A id \in DOMAIN remotePlayers' :
          Denominator(remotePlayers'[id].mesh) <= MaxDenominator

NextAgree ==
    \/ \E c \in 1..MaxAgreeConn : Moving /\ connect(c) /\ UNCHANGED sweepDue
    \/ \E c \in 1..MaxAgreeConn :
          Moving /\ Connection(c) /\ ServerStep /\ UNCHANGED sweepDue
    \/ \E c \in open \ {localId}, d \in AgreeJoinInputs :
          Moving /\ Moves(c, d) /\ playerJoin(c, d) /\ ServerStep /\ UNCHANGED sweepDue
    \/ \E c \in open \ {localId}, d \in AgreeUpdateInputs :
          Moving /\ Moves(c, d) /\ playerUpdate(c, d) /\ ServerStep /\ UNCHANGED sweepDue
    \/ cleanupGhostPlayers /\ ServerStep
    \/ receive
    \/ \E t \in BlendFrames \cup SettleFrames : frame(t)
    \/ assessNetworkQuality
    \/ clientCleanupGhostPlayers
    \/ Tick(MaxAgreeTime)

SpecAgree ==
    /\ Init /\ [][NextAgree]_vars
    /\ WF_vars(cleanupGhostPlayers /\ ServerStep)
    /\ WF_vars(receive)
    /\ WF_vars(\E t \in SettleFrames : frame(t))
    /\ WF_vars(assessNetworkQuality)
    /\ WF_vars(clientCleanupGhostPlayers)
    /\ WF_vars(Tick(MaxAgreeTime))

\* the registered players the manager observes: their connections are open
Observed ==
    {x \in (DOMAIN players \cap open) \ {localId} : players[x].fullyRegistered}

\* the manager's shadow of each observed player has the registry's position
\* as its target and its mesh exactly there
AgreeExact ==
    connected =>
        \A x \in Observed :
            /\ x \in DOMAIN remotePlayers
            /\ remotePlayers[x].targetPosition = players[x].position
            /\ remotePlayers[x].mesh = MeshPosition(players[x].position)

\* the same with the mesh within 0.01 of the registry's position on each axis
AgreeWithin ==
    connected =>
        \A x \in Observed :
            /\ x \in DOMAIN remotePlayers
            /\ remotePlayers[x].targetPosition = players[x].position
            /\ ~Mismatch(remotePlayers[x].mesh, MeshPosition(players[x].position))

====
